---- MODULE Spec2Model ----
(***************************************************************************)
(* Poll resolution and selection engine of fumiko-bot.                     *)
(*                                                                         *)
(* One community (server).  The database tables selection_polls,           *)
(* rating_polls, user_book_ratings, server_book_queue and                  *)
(* server_current_book are state; so is the chat platform's view of each   *)
(* poll message.  Every .await of a handler is a point where another task  *)
(* may run, so a handler is a sequence of actions, one per storage or      *)
(* platform call, with its position in pc.                                 *)
(***************************************************************************)
EXTENDS Integers, Sequences, FiniteSets, TLC

\* ------------------------------------------------------------------ bounds
MaxPolls == 2          \* selection poll messages the platform may create
MaxResolved == 1       \* ... of which the resolution runs follow
MaxOptions == 2        \* answers of the polls the resolution runs follow
MaxCount == 1          \* largest per-answer count the platform reports
MaxTally == 2          \* largest per-answer count in the tally-only runs
MaxSent == 2           \* messages of one kind the engine may post about one poll
MaxSearches == 3       \* searches started on the catalog client
MaxVolumes == 2        \* volumes in one upstream answer
MaxLostCalls == 1      \* transaction calls of one poll after which the process no longer stops

\* --------------------------------------------------------------- constants
NULL == "NULL"
NoMsg == 0
RatingMsg == 1                     \* message id of the rating poll
SelMsgs == 2..(1 + MaxPolls)       \* message ids of selection polls
ResolvedMsgs == 2..(1 + MaxResolved)
MsgIds == {RatingMsg} \cup SelMsgs
MatureBooks == {"b2", "b5"}            \* volumes whose is_mature() is true
Users == {"u1"}
Completed == "c1"                  \* completed_id the rating poll scores
Workers == {"w1", "w2"}            \* event-handler tasks / the sweep task
Cmds == {"cmdA", "cmdB"}           \* concurrently running /select commands
RatingAnswers == <<11, 12, 13, 14, 15>>   \* answer ids of the rating poll
UnknownToken == 99
Searchers == {"s1"}                \* tasks that search the catalog
SearchKinds == {"title", "author", "genre", "publisher"}
Queries == {"Dune", "dune"}        \* the same words in two spellings
None == <<>>                       \* Option::None
Some(x) == <<x>>                   \* Option::Some(x)
MaxResultsArgs == {None, Some(1)}  \* max_results
ShortDescription == 20             \* a description under the cached limit
LongDescription == 501             \* a description over the cached limit
Catalog == {[id |-> "v1", description |-> ShortDescription],
            [id |-> "v2", description |-> LongDescription]}

\* program constants of the catalog client
DescriptionLimit == 500            \* clean_volume_for_cache: d.len() > 500
DefaultMaxResults == 10            \* max_results.unwrap_or(10)
ResultCap == 40                    \* .min(40)

\* ----------------------------------------------------------------- helpers
Min(S) == CHOOSE x \in S : \A y \in S : x <= y
Range(s) == {s[i] : i \in 1..Len(s)}
Perms(n) == {p \in [1..n -> 1..n] : \A i, j \in 1..n : p[i] = p[j] => i = j}
RECURSIVE SeqOfSet(_)
SeqOfSet(S) == IF S = {} THEN <<>> ELSE <<Min(S)>> \o SeqOfSet(S \ {Min(S)})
RemoveBook(q, b) == SelectSeq(q, LAMBDA x : x # b)

\* poll.answers of a selection poll with n options: the platform numbers the
\* answers 1..n; the engine's index is 0-based.
SelAnswers(n) == [i \in 1..n |-> i]

\* poll.answers.iter().position(|a| a.answer_id == id): 0-based, -1 for None
Position(answers, id) ==
    IF \E i \in 1..Len(answers) : answers[i] = id
    THEN Min({i \in 1..Len(answers) : answers[i] = id}) - 1
    ELSE -1

\* results.answer_counts as the platform lists it: the counts (keyed by
\* answer position) listed in the order `order`.
AnswerCounts(answers, counts, order) ==
    [k \in 1..Len(order) |-> [id |-> answers[order[k]], count |-> counts[order[k]]]]

\* The tally loop of process_poll_completion.
RECURSIVE TallyFrom(_, _, _, _, _)
TallyFrom(acs, k, answers, max_votes, winning_indices) ==
    IF k > Len(acs)
    THEN [max_votes |-> max_votes, winning_indices |-> winning_indices]
    ELSE LET ac == acs[k]
             idx == Position(answers, ac.id)
         IN  IF idx = -1
             THEN TallyFrom(acs, k + 1, answers, max_votes, winning_indices)
             ELSE IF ac.count > max_votes
             THEN TallyFrom(acs, k + 1, answers, ac.count, <<idx>>)
             ELSE IF ac.count = max_votes /\ ac.count > 0
             THEN TallyFrom(acs, k + 1, answers, max_votes, Append(winning_indices, idx))
             ELSE TallyFrom(acs, k + 1, answers, max_votes, winning_indices)

Tally(acs, answers) == TallyFrom(acs, 1, answers, 0, <<>>)

NoVotes(t) == Len(t.winning_indices) = 0 \/ t.max_votes = 0

IsTie(t) == Len(t.winning_indices) > 1

\* the tied index the platform happened to list first
FirstListed(t) == t.winning_indices[1]

\* winning_index: the minimum of the tied indices, else the only one
WinningIndex(t) ==
    IF Len(t.winning_indices) > 1
    THEN Min(Range(t.winning_indices))
    ELSE t.winning_indices[1]

\* HashMap: new, insert, remove
EmptyMap == [k \in {} |-> 0]

MapInsert(map, key, value) ==
    [k \in DOMAIN map \cup {key} |-> IF k = key THEN value ELSE map[k]]

MapRemove(map, key) == [k \in DOMAIN map \ {key} |-> map[k]]

\* a map that keeps the 0-based position
ZeroBasedAnswerMap(answers) ==
    [id \in Range(answers) |-> Position(answers, id)]

\* build_rating_answer_map: answer id -> 1-based position
BuildRatingAnswerMap(answers) ==
    [id \in Range(answers) |-> Position(answers, id) + 1]

\* ------------------------------------------------------------------- state
VARIABLES
    selection_polls,      \* table selection_polls, by message_id
    rating_polls,         \* table rating_polls, by message_id
    user_book_ratings,    \* table user_book_ratings for Completed: user -> 0 (no row) or 1..5
    server_book_queue,    \* table server_book_queue, in position order
    server_current_book,  \* table server_current_book: a volume id or NULL
    platform,             \* the chat platform's poll messages
    answer_cache,         \* RATING_POLL_ANSWER_CACHE: message id -> answer map
    worker,               \* tasks running handle_event or check_expired_polls
    cmd,                  \* tasks running a /select command
    sent,                 \* send_message calls made, per poll message and kind
    txn_calls,            \* select_book_transactional calls made by resolutions, per poll
    txn_applied,          \* ... of which succeeded, per poll
    sel_writes,           \* UPDATEs that assigned selected_volume_id, per poll, in order
    cancelled,            \* polls flipped to processed by cancel-and-proceed
    direct_applied,       \* direct selections (/select next) that succeeded
    google_books,         \* CachedGoogleBooksClient: search_cache, volume_cache, stats
    searcher,             \* tasks running a search of the catalog client
    last_result           \* per search key, what the last finished search returned

vars == <<selection_polls, rating_polls, user_book_ratings, server_book_queue,
          server_current_book, platform, answer_cache, worker, cmd,
          sent, txn_calls, txn_applied, sel_writes, cancelled, direct_applied,
          google_books, searcher, last_result>>

db == <<selection_polls, rating_polls, user_book_ratings, server_book_queue,
        server_current_book>>

ghost == <<sent, txn_calls, txn_applied, sel_writes, cancelled, direct_applied>>

\* The catalog client and its callers.  The poll engine's own lookups of a
\* winner (get_volume) are modelled by their outcome, not through this state.
catalog == <<google_books, searcher, last_result>>

\* CachedGoogleBooksClient::new: both caches empty, the counters at zero
NewClient == [search_cache |-> [k \in {} |-> <<>>],
              volume_cache |-> [k \in {} |-> <<>>],
              stats |-> [search_hits |-> 0, search_misses |-> 0, api_calls |-> 0]]

IdleSearcher == [pc |-> "idle", calls |-> 0,
                 args |-> [kind |-> "none", query |-> "", max_results |-> <<>>],
                 result |-> <<>>]

InitBooks ==
    /\ google_books = NewClient
    /\ searcher = [s \in Searchers |-> IdleSearcher]
    /\ last_result = [k \in {} |-> <<>>]

Kinds == {"summary", "no_votes", "tie", "blocked", "announce",
          "conflict_current", "conflict_queue", "selection_failed",
          "deadline_blocked"}

NoRow == [row |-> FALSE, book_options |-> <<>>, expired |-> FALSE,
          processed |-> FALSE, selected_volume_id |-> NULL]

NoPost == [posted |-> FALSE, finalized |-> FALSE, counts |-> <<>>]

IdleWorker == [pc |-> "idle", origin |-> "none", m |-> NoMsg, user |-> NULL,
               token |-> 0, todo |-> <<>>, late |-> FALSE, results |-> <<>>,
               book_options |-> <<>>, max_votes |-> 0, winning_index |-> -1,
               volume |-> FALSE, can_show |-> "unread", rating |-> 0, err |-> NULL,
               volume_id |-> NULL, target_channel |-> FALSE, lock |-> "none"]

IdleCmd == [pc |-> "idle", kind |-> "none", size |-> 0, saw_active |-> FALSE,
            outcome |-> "none", book_ids |-> <<>>, msg |-> NoMsg, book |-> NULL]

Init ==
    /\ selection_polls = [m \in SelMsgs |-> NoRow]
    /\ rating_polls = [m \in {RatingMsg} |->
                         [row |-> TRUE, expired |-> FALSE, processed |-> FALSE]]
    /\ user_book_ratings = [u \in Users |-> 0]
    /\ server_book_queue = <<"b1", "b2", "b3">>
    /\ server_current_book = NULL
    /\ platform = [m \in MsgIds |->
                     IF m = RatingMsg
                     THEN [posted |-> TRUE, finalized |-> FALSE, counts |-> <<>>]
                     ELSE NoPost]
    /\ answer_cache = EmptyMap
    /\ worker = [w \in Workers |-> IdleWorker]
    /\ cmd = [c \in Cmds |-> IdleCmd]
    /\ sent = [m \in MsgIds |-> [k \in Kinds |-> 0]]
    /\ txn_calls = [m \in SelMsgs |-> 0]
    /\ txn_applied = [m \in SelMsgs |-> 0]
    /\ sel_writes = [m \in SelMsgs |-> <<>>]
    /\ cancelled = {}
    /\ direct_applied = 0
    /\ InitBooks

\* ------------------------------------------------------------- environment
\* The platform closes a poll: its per-answer counts are final from here on.
PlatformFinalize(m) ==
    /\ UNCHANGED catalog
    /\ platform[m].posted /\ ~platform[m].finalized
    /\ \E counts \in [1..Len(platform[m].counts) -> 0..MaxCount] :
         platform' = [platform EXCEPT ![m].finalized = TRUE, ![m].counts = counts]
    /\ UNCHANGED <<db, answer_cache, worker, cmd, ghost>>

\* NOW() passes expires_at of a selection poll row.
Expire(m) ==
    /\ UNCHANGED catalog
    /\ selection_polls[m].row /\ ~selection_polls[m].expired
    /\ selection_polls' = [selection_polls EXCEPT ![m].expired = TRUE]
    /\ UNCHANGED <<rating_polls, user_book_ratings, server_book_queue,
                   server_current_book, platform, answer_cache,
                   worker, cmd, ghost>>

\* NOW() passes expires_at of a rating poll row.
ExpireRating(m) ==
    /\ UNCHANGED catalog
    /\ rating_polls[m].row /\ ~rating_polls[m].expired
    /\ rating_polls' = [rating_polls EXCEPT ![m].expired = TRUE]
    /\ UNCHANGED <<selection_polls, user_book_ratings, server_book_queue,
                   server_current_book, platform, answer_cache,
                   worker, cmd, ghost>>

\* ----------------------------------------------------- storage statements
\* a read of rating_polls that skips processed rows
OpenRatingPoll(m) ==
    m \in DOMAIN rating_polls /\ rating_polls[m].row /\ ~rating_polls[m].processed

\* SELECT completed_id FROM rating_polls WHERE message_id = $1
IsRatingPoll(m) == m \in DOMAIN rating_polls /\ rating_polls[m].row

\* a read that takes every poll message for a selection poll
AnyPollMessage(m) == m \in DOMAIN selection_polls

IsSelectionPoll(m) == m \in DOMAIN selection_polls /\ selection_polls[m].row

\* the row's processed flag as a trigger finds it when it starts
RowProcessed(m) ==
    \/ IsRatingPoll(m) /\ rating_polls[m].processed
    \/ IsSelectionPoll(m) /\ selection_polls[m].processed

\* SELECT ... FROM rating_polls WHERE message_id = $1 AND NOT processed
UnprocessedRatingRow(m) == IsRatingPoll(m) /\ ~rating_polls[m].processed

\* the same read without its AND NOT processed
AnySelectionRow(m) == m \in DOMAIN selection_polls /\ selection_polls[m].row

\* SELECT ... FROM selection_polls WHERE message_id = $1 AND NOT processed
UnprocessedSelectionRow(m) == IsSelectionPoll(m) /\ ~selection_polls[m].processed

\* an update that flips the flag instead of setting it
ToggleProcessed(row) == [row EXCEPT !.processed = ~@]

\* an update that never reaches the row
KeepRow(row) == row

\* UPDATE ... SET processed = TRUE WHERE message_id = $1
MarkProcessed(row) == [row EXCEPT !.processed = TRUE]

\* UPDATE selection_polls SET processed = TRUE, selected_volume_id = $1
WriteWinner(row, volume_id) ==
    [row EXCEPT !.processed = TRUE, !.selected_volume_id = volume_id]

\* UPDATE selection_polls SET processed = TRUE, selected_volume_id = NULL
CloseAfterFetchFailure(row) ==
    [row EXCEPT !.processed = TRUE, !.selected_volume_id = NULL]

\* a procedure that selects whatever it is given
SelectAlways(queue, current, volume_id) ==
    [success |-> TRUE, error |-> NULL,
     queue |-> RemoveBook(queue, volume_id), current |-> volume_id]

\* select_book_from_queue_tx: one atomic storage procedure.  It refuses when
\* the server already has a current book or the volume is not in the queue;
\* otherwise the volume leaves the queue and becomes the current book.
SelectBookFromQueueTx(queue, current, volume_id) ==
    IF current # NULL
    THEN [success |-> FALSE, error |-> "already has a current book",
          queue |-> queue, current |-> current]
    ELSE IF volume_id \notin Range(queue)
    THEN [success |-> FALSE, error |-> "not found in queue",
          queue |-> queue, current |-> current]
    ELSE [success |-> TRUE, error |-> NULL,
          queue |-> RemoveBook(queue, volume_id), current |-> volume_id]

\* what sqlx gives when the call of the procedure itself fails
StorageError == "error communicating with database"

\* an Err arm with one message for every error
OneMessageForAll(error) == "selection_failed"

\* the message the Err arm of the selection sends for an error text
ConflictKind(error) ==
    IF error = "already has a current book" THEN "conflict_current"
    ELSE IF error = "not found in queue" THEN "conflict_queue"
    ELSE "selection_failed"

\* a gate that lets every volume through
AlwaysShow(volume_id, allowed) == TRUE

\* check_volume_maturity_event, given the lookup succeeded; allowed is
\* channel_is_nsfw && maturity_enabled as read at the call
CanShow(volume_id, allowed) == volume_id \notin MatureBooks \/ allowed

\* channel_id.send_message(..): counted per poll and kind of message
Send(m, kind) ==
    /\ sent[m][kind] < MaxSent
    /\ sent' = [sent EXCEPT ![m][kind] = @ + 1]

\* The process stops: every running handler, the watcher's pass and every
\* command in progress are lost, with the answer cache and the catalog
\* caches; the tables and the platform's messages stay as they are.  The
\* restarted process starts with idle tasks.  (Bounded by the transaction
\* calls made so far, the one counter that stops can make grow for ever.)
Crash ==
    /\ \E w \in Workers : worker[w].pc # "idle"
    /\ \A m \in SelMsgs : txn_calls[m] <= MaxLostCalls
    /\ worker' = [w \in Workers |-> IdleWorker]
    /\ cmd' = [c \in Cmds |-> IdleCmd]
    /\ answer_cache' = EmptyMap
    /\ google_books' = NewClient
    /\ searcher' = [s \in Searchers |-> IdleSearcher]
    /\ UNCHANGED <<db, platform, ghost, last_result>>

\* /finishbook: finish_current_book_tx moves the current book to the
\* completed books
FinishBook ==
    /\ UNCHANGED catalog
    /\ server_current_book # NULL
    /\ server_current_book' = NULL
    /\ UNCHANGED <<selection_polls, rating_polls, user_book_ratings,
                   server_book_queue, platform, answer_cache, worker, cmd, ghost>>

\* /adminqueue remove book: DELETE FROM server_book_queue WHERE server_id = $1
\* AND volume_id = $2, after the admin confirmed
AdminQueueRemove(b) ==
    /\ UNCHANGED catalog
    /\ b \in Range(server_book_queue)
    /\ server_book_queue' = RemoveBook(server_book_queue, b)
    /\ UNCHANGED <<selection_polls, rating_polls, user_book_ratings,
                   server_current_book, platform, answer_cache,
                   worker, cmd, ghost>>

\* ------------------------------------------------------------ event tasks
\* where a task goes when check_poll_for_completion is entered for m
EnterCheck(wr, m) ==
    [wr EXCEPT !.pc = "cpc_fetch", !.m = m, !.late = RowProcessed(m)]

\* where a task goes when check_poll_for_completion returns: the sweep takes
\* the next poll of its list, an event handler ends
AfterCheck(wr) ==
    IF wr.origin = "sweep" /\ wr.todo # <<>>
    THEN EnterCheck([IdleWorker EXCEPT !.origin = "sweep", !.todo = Tail(wr.todo)],
                    Head(wr.todo))
    ELSE IdleWorker

\* FullEvent::MessagePollVoteAdd
EventVoteAdd(w, m, u, tok) ==
    /\ UNCHANGED catalog
    /\ worker[w].pc = "idle"
    /\ platform[m].posted
    /\ worker' = [worker EXCEPT ![w] = [IdleWorker EXCEPT !.pc = "rva_select",
                     !.origin = "event", !.m = m, !.user = u, !.token = tok]]
    /\ UNCHANGED <<db, platform, answer_cache, cmd, ghost>>

\* FullEvent::MessagePollVoteRemove
EventVoteRemove(w, m, u, tok) ==
    /\ UNCHANGED catalog
    /\ worker[w].pc = "idle"
    /\ platform[m].posted
    /\ worker' = [worker EXCEPT ![w] = [IdleWorker EXCEPT !.pc = "rvr_select",
                     !.origin = "event", !.m = m, !.user = u, !.token = tok]]
    /\ UNCHANGED <<db, platform, answer_cache, cmd, ghost>>

\* FullEvent::MessageUpdate
EventMessageUpdate(w, m) ==
    /\ UNCHANGED catalog
    /\ worker[w].pc = "idle"
    /\ platform[m].posted
    /\ worker' = [worker EXCEPT ![w] =
                     EnterCheck([IdleWorker EXCEPT !.origin = "event"], m)]
    /\ UNCHANGED <<db, platform, answer_cache, cmd, ghost>>

\* check_expired_polls: SELECT ... WHERE NOT processed AND expires_at <= NOW()
ExpiredPolls ==
    {m \in SelMsgs : selection_polls[m].row /\ ~selection_polls[m].processed
                     /\ selection_polls[m].expired}

\* one tick of the watcher; there is a single watcher task
SweepStart(w) ==
    /\ UNCHANGED catalog
    /\ worker[w].pc = "idle"
    /\ ExpiredPolls # {}
    /\ worker' = [worker EXCEPT ![w] =
                     AfterCheck([IdleWorker EXCEPT !.origin = "sweep",
                                                   !.todo = SeqOfSet(ExpiredPolls)])]
    /\ UNCHANGED <<db, platform, answer_cache, cmd, ghost>>

\* process_rating_vote_add: SELECT completed_id, channel_id FROM rating_polls
RvaSelect(w) ==
    /\ UNCHANGED catalog
    /\ worker[w].pc = "rva_select"
    /\ worker' = [worker EXCEPT ![w] =
                     IF IsRatingPoll(worker[w].m)
                     THEN [@ EXCEPT !.pc = "rva_resolve"]
                     ELSE EnterCheck(@, worker[w].m)]
    /\ UNCHANGED <<db, platform, answer_cache, cmd, ghost>>

\* resolve_rating_choice: the cache read
RvaResolve(w) ==
    /\ UNCHANGED catalog
    /\ worker[w].pc = "rva_resolve"
    /\ LET wr == worker[w]
           hit == wr.m \in DOMAIN answer_cache
                    /\ wr.token \in DOMAIN answer_cache[wr.m]
       IN  worker' = [worker EXCEPT ![w] =
                        IF hit
                        THEN [wr EXCEPT !.pc = "rva_upsert",
                                        !.rating = answer_cache[wr.m][wr.token]]
                        ELSE [wr EXCEPT !.pc = "rva_fetch"]]
    /\ UNCHANGED <<db, platform, answer_cache, cmd, ghost>>

\* a fetch whose map keeps the 0-based position
RvaFetchZeroBased(w) ==
    /\ UNCHANGED catalog
    /\ worker[w].pc = "rva_fetch"
    /\ \E ok \in BOOLEAN :
         LET wr == worker[w]
             map == ZeroBasedAnswerMap(RatingAnswers)
         IN  IF ~ok
             THEN /\ worker' = [worker EXCEPT ![w] = IdleWorker]
                  /\ UNCHANGED answer_cache
             ELSE /\ answer_cache' = MapInsert(answer_cache, wr.m, map)
                  /\ worker' = [worker EXCEPT ![w] =
                        IF wr.token \in DOMAIN map
                        THEN [wr EXCEPT !.pc = "rva_upsert", !.rating = map[wr.token]]
                        ELSE EnterCheck(wr, wr.m)]
    /\ UNCHANGED <<db, platform, cmd, ghost>>

\* a fetch that stores the lowest rating for an answer it cannot find
RvaFetchDefaultRating(w) ==
    /\ UNCHANGED catalog
    /\ worker[w].pc = "rva_fetch"
    /\ \E ok \in BOOLEAN :
         LET wr == worker[w]
             map == BuildRatingAnswerMap(RatingAnswers)
         IN  IF ~ok
             THEN /\ worker' = [worker EXCEPT ![w] = IdleWorker]
                  /\ UNCHANGED answer_cache
             ELSE /\ answer_cache' = MapInsert(answer_cache, wr.m, map)
                  /\ worker' = [worker EXCEPT ![w] =
                        [wr EXCEPT !.pc = "rva_upsert",
                                   !.rating = IF wr.token \in DOMAIN map
                                              THEN map[wr.token] ELSE 1]]
    /\ UNCHANGED <<db, platform, cmd, ghost>>

\* resolve_rating_choice: the fetch on a miss, and the cache insert.  A failed
\* fetch ends the handler with the error (no completion check follows).
RvaFetch(w) ==
    /\ UNCHANGED catalog
    /\ worker[w].pc = "rva_fetch"
    /\ \E ok \in BOOLEAN :
         LET wr == worker[w]
             map == BuildRatingAnswerMap(RatingAnswers)
         IN  IF ~ok
             THEN /\ worker' = [worker EXCEPT ![w] = IdleWorker]
                  /\ UNCHANGED answer_cache
             ELSE /\ answer_cache' = MapInsert(answer_cache, wr.m, map)
                  /\ worker' = [worker EXCEPT ![w] =
                        IF wr.token \in DOMAIN map
                        THEN [wr EXCEPT !.pc = "rva_upsert", !.rating = map[wr.token]]
                        ELSE EnterCheck(wr, wr.m)]
    /\ UNCHANGED <<db, platform, cmd, ghost>>

\* INSERT INTO user_book_ratings ... ON CONFLICT DO UPDATE SET rating = $3
RvaUpsert(w) ==
    /\ UNCHANGED catalog
    /\ worker[w].pc = "rva_upsert"
    /\ user_book_ratings' =
           [user_book_ratings EXCEPT ![worker[w].user] = worker[w].rating]
    /\ worker' = [worker EXCEPT ![w] = EnterCheck(@, worker[w].m)]
    /\ UNCHANGED <<selection_polls, rating_polls, server_book_queue,
                   server_current_book, platform, answer_cache, cmd, ghost>>

\* process_rating_vote_remove: SELECT completed_id FROM rating_polls
RvrSelect(w) ==
    /\ UNCHANGED catalog
    /\ worker[w].pc = "rvr_select"
    /\ worker' = [worker EXCEPT ![w] =
                     IF IsRatingPoll(worker[w].m)
                     THEN [@ EXCEPT !.pc = "rvr_delete"]
                     ELSE IdleWorker]
    /\ UNCHANGED <<db, platform, answer_cache, cmd, ghost>>

\* a vote removal that leaves the row in place
RvrKeep(w) ==
    /\ UNCHANGED catalog
    /\ worker[w].pc = "rvr_delete"
    /\ worker' = [worker EXCEPT ![w] = IdleWorker]
    /\ UNCHANGED <<db, platform, answer_cache, cmd, ghost>>

\* a vote removal that deletes only the rating of the answer it names
RvrDeleteNamed(w) ==
    /\ UNCHANGED catalog
    /\ worker[w].pc = "rvr_delete"
    /\ user_book_ratings' =
           [user_book_ratings EXCEPT ![worker[w].user] =
               IF @ = Position(RatingAnswers, worker[w].token) + 1 THEN 0 ELSE @]
    /\ worker' = [worker EXCEPT ![w] = IdleWorker]
    /\ UNCHANGED <<selection_polls, rating_polls, server_book_queue,
                   server_current_book, platform, answer_cache, cmd, ghost>>

\* DELETE FROM user_book_ratings WHERE user_id = $1 AND completed_id = $2
RvrDelete(w) ==
    /\ UNCHANGED catalog
    /\ worker[w].pc = "rvr_delete"
    /\ user_book_ratings' = [user_book_ratings EXCEPT ![worker[w].user] = 0]
    /\ worker' = [worker EXCEPT ![w] = IdleWorker]
    /\ UNCHANGED <<selection_polls, rating_polls, server_book_queue,
                   server_current_book, platform, answer_cache, cmd, ghost>>

\* --------------------------------------------- check_poll_for_completion
\* fetch_message_with_poll_counts: an error goes to handle_missing_poll_message,
\* a finalized poll to process_poll_completion, an open poll returns
CpcFetch(w) ==
    /\ UNCHANGED catalog
    /\ worker[w].pc = "cpc_fetch"
    /\ \E ok \in BOOLEAN :
         LET wr == worker[w] IN
         worker' = [worker EXCEPT ![w] =
             IF ~ok THEN [wr EXCEPT !.pc = "hm_select"]
             ELSE IF platform[wr.m].finalized
             THEN [wr EXCEPT !.pc = "ppc_select", !.results = platform[wr.m].counts]
             ELSE AfterCheck(wr)]
    /\ UNCHANGED <<db, platform, answer_cache, cmd, ghost>>

\* handle_missing_poll_message: SELECT ... processed FROM rating_polls and,
\* when that finds no row, SELECT ... processed ... FROM selection_polls.
\* (A message id names a row of at most one of the two tables and rows are
\* never removed, so the two reads are taken in one step.)
HmSelect(w) ==
    /\ UNCHANGED catalog
    /\ worker[w].pc = "hm_select"
    /\ LET wr == worker[w] IN
       worker' = [worker EXCEPT ![w] =
           IF IsRatingPoll(wr.m)
           THEN IF rating_polls[wr.m].processed
                THEN [wr EXCEPT !.pc = "purge"]
                ELSE [wr EXCEPT !.pc = "hm_rating_update"]
           ELSE IF IsSelectionPoll(wr.m) /\ ~selection_polls[wr.m].processed
           THEN [wr EXCEPT !.pc = "hm_sel_update"]
           ELSE AfterCheck(wr)]
    /\ UNCHANGED <<db, platform, answer_cache, cmd, ghost>>

\* handle_missing_poll_message: UPDATE rating_polls SET processed = TRUE
HmRatingUpdate(w) ==
    /\ UNCHANGED catalog
    /\ worker[w].pc = "hm_rating_update"
    /\ rating_polls' = [rating_polls EXCEPT ![worker[w].m] = MarkProcessed(@)]
    /\ worker' = [worker EXCEPT ![w].pc = "purge"]
    /\ UNCHANGED <<selection_polls, user_book_ratings, server_book_queue,
                   server_current_book, platform, answer_cache, cmd, ghost>>

\* handle_missing_poll_message: UPDATE selection_polls SET processed = TRUE,
\* selected_volume_id = NULL WHERE message_id = $1
HmSelUpdate(w) ==
    /\ UNCHANGED catalog
    /\ worker[w].pc = "hm_sel_update"
    /\ LET m == worker[w].m IN
       /\ selection_polls' = [selection_polls EXCEPT ![m] = CloseAfterFetchFailure(@)]
       /\ sel_writes' = [sel_writes EXCEPT ![m] = Append(@, [by |-> w, val |-> NULL])]
    /\ worker' = [worker EXCEPT ![w] = AfterCheck(@)]
    /\ UNCHANGED <<rating_polls, user_book_ratings, server_book_queue,
                   server_current_book, platform, answer_cache,
                   cmd, sent, txn_calls, txn_applied, cancelled, direct_applied>>

\* a completion check that leaves the cache as it is
PurgeNothing(w) ==
    /\ UNCHANGED catalog
    /\ worker[w].pc = "purge"
    /\ UNCHANGED answer_cache
    /\ worker' = [worker EXCEPT ![w] = AfterCheck(@)]
    /\ UNCHANGED <<db, platform, cmd, ghost>>

\* purge_rating_poll_cache_entry
Purge(w) ==
    /\ UNCHANGED catalog
    /\ worker[w].pc = "purge"
    /\ answer_cache' = MapRemove(answer_cache, worker[w].m)
    /\ worker' = [worker EXCEPT ![w] = AfterCheck(@)]
    /\ UNCHANGED <<db, platform, cmd, ghost>>

\* -------------------------------------- the answer cache under its lock
\* RATING_POLL_ANSWER_CACHE is a tokio RwLock<HashMap>.  Each task's lock
\* field is the guard it holds: "read", "write" or "none".  read().await
\* returns when no task holds the write guard, write().await when no task
\* holds any guard.

\* read().await can return for w
ReadLockFree(w) == \A o \in Workers \ {w} : worker[o].lock # "write"

\* write().await can return for w
WriteLockFree(w) == \A o \in Workers \ {w} : worker[o].lock = "none"

\* resolve_rating_choice: let cache = rating_answer_cache().read().await
RrcReadLock(w) ==
    /\ UNCHANGED catalog
    /\ worker[w].pc = "rva_resolve"
    /\ ReadLockFree(w)
    /\ worker' = [worker EXCEPT ![w].pc = "rrc_read", ![w].lock = "read"]
    /\ UNCHANGED <<db, platform, answer_cache, cmd, ghost>>

\* a lookup that keeps its read guard when it misses
RrcReadKeepsGuard(w) ==
    /\ UNCHANGED catalog
    /\ worker[w].pc = "rrc_read"
    /\ LET wr == worker[w]
           hit == wr.m \in DOMAIN answer_cache
                    /\ wr.token \in DOMAIN answer_cache[wr.m]
       IN  worker' = [worker EXCEPT ![w] =
                        IF hit
                        THEN [wr EXCEPT !.pc = "rva_upsert", !.lock = "none",
                                        !.rating = answer_cache[wr.m][wr.token]]
                        ELSE [wr EXCEPT !.pc = "rrc_fetch"]]
    /\ UNCHANGED <<db, platform, answer_cache, cmd, ghost>>

\* resolve_rating_choice: cache.get(&message_key).and_then(..).copied() and
\* the end of the block, where the read guard is dropped; a hit returns
\* the rating, a miss goes on to the fetch
RrcRead(w) ==
    /\ UNCHANGED catalog
    /\ worker[w].pc = "rrc_read"
    /\ LET wr == worker[w]
           hit == wr.m \in DOMAIN answer_cache
                    /\ wr.token \in DOMAIN answer_cache[wr.m]
       IN  worker' = [worker EXCEPT ![w] =
                        IF hit
                        THEN [wr EXCEPT !.pc = "rva_upsert", !.lock = "none",
                                        !.rating = answer_cache[wr.m][wr.token]]
                        ELSE [wr EXCEPT !.pc = "rrc_fetch", !.lock = "none"]]
    /\ UNCHANGED <<db, platform, answer_cache, cmd, ghost>>

\* resolve_rating_choice: fetch_message_with_poll_counts(..).await? returns;
\* a failed fetch ends the handler with the error
RrcFetch(w) ==
    /\ UNCHANGED catalog
    /\ worker[w].pc = "rrc_fetch"
    /\ \E ok \in BOOLEAN :
         worker' = [worker EXCEPT ![w] =
                       IF ok THEN [@ EXCEPT !.pc = "rrc_write_wait"]
                       ELSE IdleWorker]
    /\ UNCHANGED <<db, platform, answer_cache, cmd, ghost>>

\* resolve_rating_choice: rating_answer_cache().write().await
RrcWriteLock(w) ==
    /\ UNCHANGED catalog
    /\ worker[w].pc = "rrc_write_wait"
    /\ WriteLockFree(w)
    /\ worker' = [worker EXCEPT ![w].pc = "rrc_insert", ![w].lock = "write"]
    /\ UNCHANGED <<db, platform, answer_cache, cmd, ghost>>

\* resolve_rating_choice: .insert(message_key, answer_map), the guard
\* dropped at the end of the statement, and Ok(rating)
RrcInsert(w) ==
    /\ UNCHANGED catalog
    /\ worker[w].pc = "rrc_insert"
    /\ LET wr == [worker[w] EXCEPT !.lock = "none"]
           map == BuildRatingAnswerMap(RatingAnswers)
       IN  /\ answer_cache' = MapInsert(answer_cache, wr.m, map)
           /\ worker' = [worker EXCEPT ![w] =
                 IF wr.token \in DOMAIN map
                 THEN [wr EXCEPT !.pc = "rva_upsert", !.rating = map[wr.token]]
                 ELSE EnterCheck(wr, wr.m)]
    /\ UNCHANGED <<db, platform, cmd, ghost>>

\* purge_rating_poll_cache_entry: rating_answer_cache().write().await
PurgeWriteLock(w) ==
    /\ UNCHANGED catalog
    /\ worker[w].pc = "purge"
    /\ WriteLockFree(w)
    /\ worker' = [worker EXCEPT ![w].pc = "purge_remove", ![w].lock = "write"]
    /\ UNCHANGED <<db, platform, answer_cache, cmd, ghost>>

\* purge_rating_poll_cache_entry: .remove(&message_id.get()), the guard
\* dropped at the end of the statement
PurgeRemove(w) ==
    /\ UNCHANGED catalog
    /\ worker[w].pc = "purge_remove"
    /\ answer_cache' = MapRemove(answer_cache, worker[w].m)
    /\ worker' = [worker EXCEPT ![w] = AfterCheck(@)]
    /\ UNCHANGED <<db, platform, cmd, ghost>>

\* ------------------------------------------------ process_poll_completion
\* a resolution that takes the first option whatever the tally picked
FirstOption(wr) == wr.book_options[1]

\* the volume the tally picked
WinningVolume(wr) == wr.book_options[wr.winning_index + 1]

\* what the maturity gate's reads can give: the settings allow mature
\* content, they refuse it, or a read fails
GateReads == {"allowed", "refused", "error"}

\* a resolution that gives up when the lookup fails
AbortOnLookupFailure(wr, ok, gate) ==
    IF wr.winning_index >= Len(wr.book_options)
    THEN [wr EXCEPT !.pc = "sel_mark_processed"]
    ELSE IF ~ok \/ (WinningVolume(wr) \in MatureBooks /\ gate = "error")
    THEN AfterCheck(wr)
    ELSE [wr EXCEPT !.volume = ok,
                    !.can_show = IF WinningVolume(wr) \in MatureBooks
                                 THEN gate ELSE "unread",
                    !.pc = IF ~CanShow(WinningVolume(wr), gate = "allowed")
                           THEN "sel_blocked_send" ELSE "sel_txn"]

\* a resolution that runs the gate on the winner's id whether or not the
\* lookup gave a volume
GateWithoutLookup(wr, ok, gate) ==
    IF wr.winning_index >= Len(wr.book_options)
    THEN [wr EXCEPT !.pc = "sel_mark_processed"]
    ELSE IF WinningVolume(wr) \in MatureBooks /\ gate = "error"
    THEN AfterCheck(wr)
    ELSE [wr EXCEPT !.volume = ok,
                    !.can_show = IF WinningVolume(wr) \in MatureBooks
                                 THEN gate ELSE "unread",
                    !.pc = IF ~CanShow(WinningVolume(wr), gate = "allowed")
                           THEN "sel_blocked_send" ELSE "sel_txn"]

\* the bounds check returning without a write
LeaveOpenOnBadIndex(wr, ok, gate) ==
    IF wr.winning_index >= Len(wr.book_options)
    THEN AfterCheck(wr)
    ELSE IF ok /\ WinningVolume(wr) \in MatureBooks /\ gate = "error"
    THEN AfterCheck(wr)
    ELSE [wr EXCEPT !.volume = ok,
                    !.can_show = IF ok /\ WinningVolume(wr) \in MatureBooks
                                 THEN gate ELSE "unread",
                    !.pc = IF ok /\ ~CanShow(WinningVolume(wr), gate = "allowed")
                           THEN "sel_blocked_send" ELSE "sel_txn"]

\* After the tally (and the tie notice): the index bounds check,
\* google_books.get_volume (ok: it succeeded) and, for a fetched volume, the
\* maturity gate.  None of these reads or writes the tables.  A failed gate
\* read ends the handler with the error, the row untouched.  can_show keeps
\* what the settings read for a mature volume gave ("unread" when the gate
\* was skipped or the volume is not mature and nothing was read).
AfterLookup(wr, ok, gate) ==
    IF wr.winning_index >= Len(wr.book_options)
    THEN [wr EXCEPT !.pc = "sel_mark_processed"]
    ELSE IF ok /\ WinningVolume(wr) \in MatureBooks /\ gate = "error"
    THEN AfterCheck(wr)
    ELSE [wr EXCEPT !.volume = ok,
                    !.can_show = IF ok /\ WinningVolume(wr) \in MatureBooks
                                 THEN gate ELSE "unread",
                    !.pc = IF ok /\ ~CanShow(WinningVolume(wr), gate = "allowed")
                           THEN "sel_blocked_send" ELSE "sel_txn"]

\* SELECT ... FROM rating_polls WHERE message_id = $1 AND NOT processed and,
\* when that finds no row, SELECT server_id, book_options, deadline FROM
\* selection_polls WHERE message_id = $1 AND NOT processed, then the tally of
\* the fetched poll.results, listed by the platform in any order.
PpcSelect(w) ==
    /\ UNCHANGED catalog
    /\ worker[w].pc = "ppc_select"
    /\ LET wr == worker[w] IN
       IF UnprocessedRatingRow(wr.m)
       THEN worker' = [worker EXCEPT ![w].pc = "ppc_rating_update"]
       ELSE IF UnprocessedSelectionRow(wr.m)
       THEN \E order \in Perms(Len(wr.results)), ok \in BOOLEAN, gate \in GateReads :
              LET answers == SelAnswers(Len(wr.results))
                  t == Tally(AnswerCounts(answers, wr.results, order), answers)
                  sel == [wr EXCEPT !.book_options = selection_polls[wr.m].book_options]
              IN  worker' = [worker EXCEPT ![w] =
                     IF NoVotes(t)
                     THEN [sel EXCEPT !.pc = "sel_novotes_send"]
                     ELSE LET won == [sel EXCEPT !.max_votes = t.max_votes,
                                                 !.winning_index = WinningIndex(t)]
                          IN  IF IsTie(t)
                              THEN [won EXCEPT !.pc = "sel_tie_send"]
                              ELSE AfterLookup(won, ok, gate)]
       ELSE worker' = [worker EXCEPT ![w] = AfterCheck(wr)]
    /\ UNCHANGED <<db, platform, answer_cache, cmd, ghost>>

\* UPDATE rating_polls SET processed = TRUE WHERE message_id = $1
PpcRatingUpdate(w) ==
    /\ UNCHANGED catalog
    /\ worker[w].pc = "ppc_rating_update"
    /\ rating_polls' = [rating_polls EXCEPT ![worker[w].m] = MarkProcessed(@)]
    /\ worker' = [worker EXCEPT ![w].pc = "ppc_rating_send"]
    /\ UNCHANGED <<selection_polls, user_book_ratings, server_book_queue,
                   server_current_book, platform, answer_cache, cmd, ghost>>

\* the stats read, the title lookup and the summary message
PpcRatingSend(w) ==
    /\ UNCHANGED catalog
    /\ worker[w].pc = "ppc_rating_send"
    /\ Send(worker[w].m, "summary")
    /\ worker' = [worker EXCEPT ![w].pc = "purge"]
    /\ UNCHANGED <<db, platform, answer_cache, cmd,
                   txn_calls, txn_applied, sel_writes, cancelled, direct_applied>>

\* "Poll ended with no votes, so no book was selected."
SelNoVotesSend(w) ==
    /\ UNCHANGED catalog
    /\ worker[w].pc = "sel_novotes_send"
    /\ Send(worker[w].m, "no_votes")
    /\ worker' = [worker EXCEPT ![w].pc = "sel_mark_processed"]
    /\ UNCHANGED <<db, platform, answer_cache, cmd,
                   txn_calls, txn_applied, sel_writes, cancelled, direct_applied>>

\* "Poll ended in a tie ...", then the lookup and the gate
SelTieSend(w) ==
    /\ UNCHANGED catalog
    /\ worker[w].pc = "sel_tie_send"
    /\ Send(worker[w].m, "tie")
    /\ \E ok \in BOOLEAN, gate \in GateReads :
         worker' = [worker EXCEPT ![w] = AfterLookup(@, ok, gate)]
    /\ UNCHANGED <<db, platform, answer_cache, cmd,
                   txn_calls, txn_applied, sel_writes, cancelled, direct_applied>>

\* the mature content warning
SelBlockedSend(w) ==
    /\ UNCHANGED catalog
    /\ worker[w].pc = "sel_blocked_send"
    /\ Send(worker[w].m, "blocked")
    /\ worker' = [worker EXCEPT ![w].pc = "sel_mark_processed"]
    /\ UNCHANGED <<db, platform, answer_cache, cmd,
                   txn_calls, txn_applied, sel_writes, cancelled, direct_applied>>

\* UPDATE selection_polls SET processed = TRUE WHERE message_id = $1
SelMarkProcessed(w) ==
    /\ UNCHANGED catalog
    /\ worker[w].pc = "sel_mark_processed"
    /\ selection_polls' = [selection_polls EXCEPT ![worker[w].m] = MarkProcessed(@)]
    /\ worker' = [worker EXCEPT ![w] = AfterCheck(@)]
    /\ UNCHANGED <<rating_polls, user_book_ratings, server_book_queue,
                   server_current_book, platform, answer_cache, cmd, ghost>>

\* database_helpers::select_book_transactional for the winner: the
\* procedure's answer or, when the query itself fails, an error with nothing
\* changed
SelTxn(w) ==
    /\ UNCHANGED catalog
    /\ worker[w].pc = "sel_txn"
    /\ \E reached \in BOOLEAN :
       LET wr == worker[w]
           r == IF reached
                THEN SelectBookFromQueueTx(server_book_queue, server_current_book,
                                           WinningVolume(wr))
                ELSE [success |-> FALSE, error |-> StorageError,
                      queue |-> server_book_queue, current |-> server_current_book]
       IN  /\ server_book_queue' = r.queue
           /\ server_current_book' = r.current
           /\ txn_calls' = [txn_calls EXCEPT ![wr.m] = @ + 1]
           /\ txn_applied' = [txn_applied EXCEPT ![wr.m] =
                                 IF r.success THEN @ + 1 ELSE @]
           /\ worker' = [worker EXCEPT ![w] =
                 IF r.success THEN [wr EXCEPT !.pc = "sel_announce"]
                 ELSE [wr EXCEPT !.pc = "sel_conflict_send", !.err = r.error]]
    /\ UNCHANGED <<selection_polls, rating_polls, user_book_ratings, platform,
                   answer_cache, cmd, sent, sel_writes, cancelled, direct_applied>>

\* "New Book Selected!" and the optional pin
SelAnnounce(w) ==
    /\ UNCHANGED catalog
    /\ worker[w].pc = "sel_announce"
    /\ Send(worker[w].m, "announce")
    /\ worker' = [worker EXCEPT ![w].pc = "sel_write_winner"]
    /\ UNCHANGED <<db, platform, answer_cache, cmd,
                   txn_calls, txn_applied, sel_writes, cancelled, direct_applied>>

\* UPDATE selection_polls SET processed = TRUE, selected_volume_id = $1
SelWriteWinner(w) ==
    /\ UNCHANGED catalog
    /\ worker[w].pc = "sel_write_winner"
    /\ LET wr == worker[w] IN
       /\ selection_polls' = [selection_polls EXCEPT ![wr.m] =
                                 WriteWinner(@, WinningVolume(wr))]
       /\ sel_writes' = [sel_writes EXCEPT ![wr.m] =
                            Append(@, [by |-> w, val |-> WinningVolume(wr)])]
    /\ worker' = [worker EXCEPT ![w] = AfterCheck(@)]
    /\ UNCHANGED <<rating_polls, user_book_ratings, server_book_queue,
                   server_current_book, platform, answer_cache,
                   cmd, sent, txn_calls, txn_applied, cancelled, direct_applied>>

\* the Err arm: one of the conflict messages
SelConflictSend(w) ==
    /\ UNCHANGED catalog
    /\ worker[w].pc = "sel_conflict_send"
    /\ Send(worker[w].m, ConflictKind(worker[w].err))
    /\ worker' = [worker EXCEPT ![w].pc = "sel_mark_processed"]
    /\ UNCHANGED <<db, platform, answer_cache, cmd,
                   txn_calls, txn_applied, sel_writes, cancelled, direct_applied>>

\* positions of a resolution at a send_message call
SendPcs == {"ppc_rating_send", "sel_novotes_send", "sel_tie_send",
            "sel_blocked_send", "sel_announce", "sel_conflict_send"}

\* a resolution that returns the error of a failed send
AbortAfterSend(wr, ok, gate) == AfterCheck(wr)

\* where a resolution goes after a send_message call that returned Err: the
\* statement that follows the call, as every call is let _ = ... or a match
\* whose Err arm only logs
AfterSend(wr, ok, gate) ==
    CASE wr.pc = "ppc_rating_send" -> [wr EXCEPT !.pc = "purge"]
      [] wr.pc = "sel_novotes_send" -> [wr EXCEPT !.pc = "sel_mark_processed"]
      [] wr.pc = "sel_tie_send" -> AfterLookup(wr, ok, gate)
      [] wr.pc = "sel_blocked_send" -> [wr EXCEPT !.pc = "sel_mark_processed"]
      [] wr.pc = "sel_announce" -> [wr EXCEPT !.pc = "sel_write_winner"]
      [] wr.pc = "sel_conflict_send" -> [wr EXCEPT !.pc = "sel_mark_processed"]

\* a send_message call of a resolution fails (the announcement: in the
\* announcement channel and in the origin channel, so that nothing is pinned)
SendFails(w) ==
    /\ UNCHANGED catalog
    /\ worker[w].pc \in SendPcs
    /\ \E ok \in BOOLEAN, gate \in GateReads :
         worker' = [worker EXCEPT ![w] = AfterSend(@, ok, gate)]
    /\ UNCHANGED <<db, platform, answer_cache, cmd, ghost>>

\* ------------------------------------------------------- deadline watcher
\* deadline_handler::process_deadlines, run by the task that
\* spawn_deadline_watcher starts.

\* finish_current_item(community): the current book, if there is one, moves
\* to the completed books
FinishCurrentBookTx(current) ==
    [success |-> current # NULL, current |-> NULL]

\* can_show_volume: check_volume_maturity_event(..).unwrap_or(false) for a
\* fetched volume, true when the lookup failed
CanShowVolume(volume_id, ok, gate) ==
    IF ok THEN CanShow(volume_id, gate = "allowed") ELSE TRUE

\* The scan: SELECT ... FROM server_current_book scb JOIN server_bot_config
\* sbc ... WHERE scb.deadline <= NOW() AND sbc.auto_complete_on_deadline.
\* The row gives the volume and whether a target channel is configured.
\* (One message id is left for the rating poll the completion may post.)
ProcessDeadlines(w) ==
    /\ UNCHANGED catalog
    /\ worker[w].pc = "idle"
    /\ server_current_book # NULL
    /\ ~platform[RatingMsg].posted
    /\ \E channel \in BOOLEAN :
         worker' = [worker EXCEPT ![w] =
                       [IdleWorker EXCEPT !.pc = "dl_finish", !.origin = "deadline",
                                          !.m = RatingMsg,
                                          !.volume_id = server_current_book,
                                          !.target_channel = channel]]
    /\ UNCHANGED <<db, platform, answer_cache, cmd, ghost>>

\* finish_book_transactional(pool, server_id): Err is logged and the row
\* is left
DlFinish(w) ==
    /\ UNCHANGED catalog
    /\ worker[w].pc = "dl_finish"
    /\ LET r == FinishCurrentBookTx(server_current_book) IN
       IF r.success
       THEN /\ server_current_book' = r.current
            /\ worker' = [worker EXCEPT ![w].pc = "dl_lookup"]
       ELSE /\ UNCHANGED server_current_book
            /\ worker' = [worker EXCEPT ![w] = IdleWorker]
    /\ UNCHANGED <<selection_polls, rating_polls, user_book_ratings,
                   server_book_queue, platform, answer_cache, cmd, ghost>>

\* google_books.get_volume(&volume_id) and, with a target channel,
\* can_show_volume; without a target channel nothing is posted
DlLookup(w) ==
    /\ UNCHANGED catalog
    /\ worker[w].pc = "dl_lookup"
    /\ \E ok \in BOOLEAN, gate \in GateReads :
         LET wr == worker[w]
             read == [wr EXCEPT !.volume = ok,
                                !.can_show = IF ok /\ wr.volume_id \in MatureBooks
                                             THEN gate ELSE "unread"]
         IN  worker' = [worker EXCEPT ![w] =
                IF ~wr.target_channel
                THEN IdleWorker
                ELSE IF CanShowVolume(wr.volume_id, ok, gate)
                THEN [read EXCEPT !.pc = "dl_send_poll"]
                ELSE [read EXCEPT !.pc = "dl_notice"]]
    /\ UNCHANGED <<db, platform, answer_cache, cmd, ghost>>

\* The "Deadline Reached!" message with the 1-5 rating poll:
\* cache_rating_poll_answers for the message sent, the optional pin; a
\* failed send is logged and ends the completion.
DlSendPoll(w) ==
    /\ UNCHANGED catalog
    /\ worker[w].pc = "dl_send_poll"
    /\ \E ok \in BOOLEAN :
         IF ok
         THEN /\ platform' = [platform EXCEPT ![worker[w].m] =
                                 [posted |-> TRUE, finalized |-> FALSE, counts |-> <<>>]]
              /\ answer_cache' = MapInsert(answer_cache, worker[w].m,
                                           BuildRatingAnswerMap(RatingAnswers))
              /\ worker' = [worker EXCEPT ![w].pc = "dl_insert"]
         ELSE /\ UNCHANGED <<platform, answer_cache>>
              /\ worker' = [worker EXCEPT ![w] = IdleWorker]
    /\ UNCHANGED <<db, cmd, ghost>>

\* The else branch of can_show_volume: if let Ok(is_nsfw) =
\* channel_is_nsfw_http(..) { the warning and the notice }; when the channel
\* cannot be read the branch does nothing.
DlNotice(w) ==
    /\ UNCHANGED catalog
    /\ worker[w].pc = "dl_notice"
    /\ \E readable \in BOOLEAN :
         IF readable
         THEN Send(worker[w].m, "deadline_blocked")
         ELSE UNCHANGED sent
    /\ worker' = [worker EXCEPT ![w] = IdleWorker]
    /\ UNCHANGED <<db, platform, answer_cache, cmd,
                   txn_calls, txn_applied, sel_writes, cancelled, direct_applied>>

\* INSERT INTO rating_polls (message_id, channel_id, server_id, completed_id,
\* expires_at) ... ON CONFLICT (message_id) DO NOTHING
DlInsert(w) ==
    /\ UNCHANGED catalog
    /\ worker[w].pc = "dl_insert"
    /\ rating_polls' = [rating_polls EXCEPT ![worker[w].m] =
                           IF @.row THEN @
                           ELSE [row |-> TRUE, expired |-> FALSE, processed |-> FALSE]]
    /\ worker' = [worker EXCEPT ![w] = IdleWorker]
    /\ UNCHANGED <<selection_polls, user_book_ratings, server_book_queue,
                   server_current_book, platform, answer_cache, cmd, ghost>>

\* -------------------------------------------------------- /select commands
\* a guard without the repair statement
NoRepair(polls) == polls

\* active_selection_poll_row, first statement: UPDATE selection_polls SET
\* processed = TRUE WHERE server_id = $1 AND NOT processed AND expires_at <= NOW()
RepairStale(polls) ==
    [m \in DOMAIN polls |->
        IF polls[m].row /\ ~polls[m].processed /\ polls[m].expired
        THEN MarkProcessed(polls[m]) ELSE polls[m]]

\* active_selection_poll_row, second statement: ... WHERE server_id = $1 AND
\* NOT processed AND expires_at > NOW()
ActivePolls(polls) ==
    {m \in DOMAIN polls : polls[m].row /\ ~polls[m].processed /\ ~polls[m].expired}

\* the rows of the server WHERE NOT processed
OpenPolls(polls) == {m \in DOMAIN polls : polls[m].row /\ ~polls[m].processed}

\* a cancel that closes nothing
CancelNothing(polls) == polls

\* UPDATE selection_polls SET processed = TRUE WHERE server_id = $1 AND NOT processed
CancelAll(polls) ==
    [m \in DOMAIN polls |->
        IF polls[m].row /\ ~polls[m].processed THEN MarkProcessed(polls[m]) ELSE polls[m]]

\* a match that runs the command body on every outcome
EveryOutcomeProceeds(outcome) == TRUE

\* match interactive_poll_guard(..): the arms that run the command body
GuardProceeds(outcome) == outcome \in {"NoActivePoll", "CancelledProceed"}

\* a table without the index
IndexAbsent(polls) == TRUE

\* the partial unique index on selection_polls: one unprocessed row per server
UniqueIndexAllows(polls) == OpenPolls(polls) = {}

\* get_queue_books_for_poll($1, $2): the first poll_size books of the queue
QueueBooksForPoll(queue, poll_size) ==
    SubSeq(queue, 1, IF Len(queue) < poll_size THEN Len(queue) ELSE poll_size)

\* where the command body starts
BodyPc(kind) == IF kind = "poll" THEN "poll_check_current" ELSE "next_head"

\* /select poll or /select next is invoked
CmdStart(c, kind, size) ==
    /\ UNCHANGED catalog
    /\ cmd[c].pc = "idle"
    /\ cmd' = [cmd EXCEPT ![c] = [IdleCmd EXCEPT !.pc = "guard_repair",
                                                  !.kind = kind, !.size = size]]
    /\ UNCHANGED <<db, platform, answer_cache, worker, ghost>>

\* /select poll: size.unwrap_or(5).clamp(2, 10), size an Option<u8>
DefaultPollSize == 5

MinPollSize == 2

MaxPollSize == 10

\* a poll size taken as it was given
UnclampedPollSize(size) == IF size = None THEN DefaultPollSize ELSE size[1]

PollSize(size) ==
    LET asked == IF size = None THEN DefaultPollSize ELSE size[1]
    IN  IF asked < MinPollSize THEN MinPollSize
        ELSE IF asked > MaxPollSize THEN MaxPollSize
        ELSE asked

\* /select poll is invoked with the size argument as the user gave it
SelectPollInvoke(c, size) ==
    CmdStart(c, "poll", PollSize(size))

\* active_selection_poll_row: the stale-row repair
GuardRepair(c) ==
    /\ UNCHANGED catalog
    /\ cmd[c].pc = "guard_repair"
    /\ selection_polls' = RepairStale(selection_polls)
    /\ cmd' = [cmd EXCEPT ![c].pc = "guard_select"]
    /\ UNCHANGED <<rating_polls, user_book_ratings, server_book_queue,
                   server_current_book, platform, answer_cache, worker, ghost>>

\* active_selection_poll_row: the read of the active poll; none -> NoActivePoll,
\* some -> the prompt is posted
GuardSelect(c) ==
    /\ UNCHANGED catalog
    /\ cmd[c].pc = "guard_select"
    /\ cmd' = [cmd EXCEPT ![c] =
                  IF ActivePolls(selection_polls) = {}
                  THEN [@ EXCEPT !.outcome = "NoActivePoll", !.pc = BodyPc(cmd[c].kind)]
                  ELSE [@ EXCEPT !.saw_active = TRUE, !.pc = "guard_prompt"]]
    /\ UNCHANGED <<db, platform, answer_cache, worker, ghost>>

\* the invoker clicks "Cancel poll & proceed"
GuardCancel(c) ==
    /\ UNCHANGED catalog
    /\ cmd[c].pc = "guard_prompt"
    /\ selection_polls' = CancelAll(selection_polls)
    /\ cancelled' = cancelled \cup OpenPolls(selection_polls)
    /\ cmd' = [cmd EXCEPT ![c].outcome = "CancelledProceed",
                          ![c].pc = BodyPc(cmd[c].kind)]
    /\ UNCHANGED <<rating_polls, user_book_ratings, server_book_queue,
                   server_current_book, platform, answer_cache, worker,
                   sent, txn_calls, txn_applied, sel_writes, direct_applied>>

\* a timeout that counts as cancel-and-proceed
TimeoutCancels == "CancelledProceed"

\* the outcome after the 60 s collector returned nothing: Ok(GuardOutcome::KeepPoll)
TimeoutOutcome == "KeepPoll"

\* the 60 s collector returns without a click
GuardTimeout(c) ==
    /\ UNCHANGED catalog
    /\ cmd[c].pc = "guard_prompt"
    /\ cmd' = [cmd EXCEPT ![c].pc = "guard_timed_out"]
    /\ UNCHANGED <<db, platform, answer_cache, worker, ghost>>

\* after the timeout: the prompt is edited ("Timed out; keeping the current
\* poll.") and the guard returns its outcome
GuardTimeoutReturn(c) ==
    /\ UNCHANGED catalog
    /\ cmd[c].pc = "guard_timed_out"
    /\ cmd' = [cmd EXCEPT ![c] =
                  IF GuardProceeds(TimeoutOutcome)
                  THEN [@ EXCEPT !.outcome = TimeoutOutcome, !.pc = BodyPc(cmd[c].kind)]
                  ELSE IdleCmd]
    /\ UNCHANGED <<db, platform, answer_cache, worker, ghost>>

\* the invoker clicks "Keep poll": KeepPoll, and the command returns
GuardKeep(c) ==
    /\ UNCHANGED catalog
    /\ cmd[c].pc = "guard_prompt"
    /\ cmd' = [cmd EXCEPT ![c] =
                  IF GuardProceeds("KeepPoll")
                  THEN [@ EXCEPT !.outcome = "KeepPoll", !.pc = BodyPc(cmd[c].kind)]
                  ELSE IdleCmd]
    /\ UNCHANGED <<db, platform, answer_cache, worker, ghost>>

\* /select poll: SELECT ... FROM server_current_book; a current book refuses
PollCheckCurrent(c) ==
    /\ UNCHANGED catalog
    /\ cmd[c].pc = "poll_check_current"
    /\ cmd' = [cmd EXCEPT ![c] =
                  IF server_current_book # NULL THEN IdleCmd
                  ELSE [@ EXCEPT !.pc = "poll_candidates"]]
    /\ UNCHANGED <<db, platform, answer_cache, worker, ghost>>

\* /select poll: the candidates; fewer than two refuses
PollCandidates(c) ==
    /\ UNCHANGED catalog
    /\ cmd[c].pc = "poll_candidates"
    /\ LET books == QueueBooksForPoll(server_book_queue, cmd[c].size) IN
       cmd' = [cmd EXCEPT ![c] =
                  IF Len(books) < 2 THEN IdleCmd
                  ELSE [@ EXCEPT !.pc = "poll_send", !.book_ids = books]]
    /\ UNCHANGED <<db, platform, answer_cache, worker, ghost>>

\* /select poll: the poll message is posted (or the send fails); msgs are
\* the message ids the platform has left to give
PollSend(c, msgs) ==
    /\ UNCHANGED catalog
    /\ cmd[c].pc = "poll_send"
    /\ \E ok \in BOOLEAN :
         IF ~ok
         THEN /\ cmd' = [cmd EXCEPT ![c] = IdleCmd]
              /\ UNCHANGED platform
         ELSE /\ \E m \in msgs : ~platform[m].posted
              /\ LET m == Min({x \in msgs : ~platform[x].posted}) IN
                 /\ platform' = [platform EXCEPT ![m] =
                        [posted |-> TRUE, finalized |-> FALSE,
                         counts |-> [i \in 1..Len(cmd[c].book_ids) |-> 0]]]
                 /\ cmd' = [cmd EXCEPT ![c].pc = "poll_insert", ![c].msg = m]
    /\ UNCHANGED <<db, answer_cache, worker, ghost>>

\* /select poll: INSERT INTO selection_polls ...; the unique index rejects
\* the row while the server has an unprocessed one
PollInsert(c) ==
    /\ UNCHANGED catalog
    /\ cmd[c].pc = "poll_insert"
    /\ selection_polls' =
          IF UniqueIndexAllows(selection_polls)
          THEN [selection_polls EXCEPT ![cmd[c].msg] =
                   [row |-> TRUE, book_options |-> cmd[c].book_ids,
                    expired |-> FALSE, processed |-> FALSE,
                    selected_volume_id |-> NULL]]
          ELSE selection_polls
    /\ cmd' = [cmd EXCEPT ![c] = IdleCmd]
    /\ UNCHANGED <<rating_polls, user_book_ratings, server_book_queue,
                   server_current_book, platform, answer_cache, worker, ghost>>

\* /select next: SELECT volume_id ... ORDER BY position LIMIT 1
NextSelectHead(c) ==
    /\ UNCHANGED catalog
    /\ cmd[c].pc = "next_head"
    /\ cmd' = [cmd EXCEPT ![c] =
                  IF server_book_queue = <<>> THEN IdleCmd
                  ELSE [@ EXCEPT !.pc = "next_txn", !.book = Head(server_book_queue)]]
    /\ UNCHANGED <<db, platform, answer_cache, worker, ghost>>

\* /select next: select_book -> select_book_transactional
NextTxn(c) ==
    /\ UNCHANGED catalog
    /\ cmd[c].pc = "next_txn"
    /\ LET r == SelectBookFromQueueTx(server_book_queue, server_current_book,
                                      cmd[c].book)
       IN  /\ server_book_queue' = r.queue
           /\ server_current_book' = r.current
           /\ direct_applied' = IF r.success THEN direct_applied + 1
                                ELSE direct_applied
    /\ cmd' = [cmd EXCEPT ![c] = IdleCmd]
    /\ UNCHANGED <<selection_polls, rating_polls, user_book_ratings, platform,
                   answer_cache, worker, sent, txn_calls, txn_applied,
                   sel_writes, cancelled>>

\* ------------------------------------------------ the catalog client
\* str::to_lowercase on the queries of the model
ToLowercase(q) == IF q = "Dune" THEN "dune" ELSE q

\* generate_search_key: the SHA-256 digest of "type|query(|author:a)(|max:n)",
\* modelled by the tuple of what is hashed (no two inputs of the model collide)
GenerateSearchKey(query_type, query, author, max_results) ==
    <<query_type, ToLowercase(query), author, max_results>>

\* the key a search of the given arguments uses (title searches of the model
\* pass no author)
KeyOf(args) == GenerateSearchKey(args.kind, args.query, NULL, args.max_results)

\* max_results.unwrap_or(10).min(40)
EffectiveMax(max_results) ==
    Min({IF max_results = None THEN DefaultMaxResults ELSE max_results[1], ResultCap})

\* clean_volume_for_cache: a description over 500 bytes is cut to 497 bytes
\* and "..." (500 bytes; fewer when the cut falls inside a character)
CleanVolumeForCache(volume) ==
    [volume EXCEPT !.description =
        IF @ > DescriptionLimit THEN DescriptionLimit ELSE @]

\* iter().take(n)
Take(seq, n) == SubSeq(seq, 1, Min({n, Len(seq)}))

\* results_to_cache: a title search keeps every result, the other searches
\* the first effective_max; each volume is cleaned
ResultsToCache(kind, results, max_results) ==
    LET kept == IF kind = "title" THEN results
                ELSE Take(results, EffectiveMax(max_results))
    IN  [i \in 1..Len(kept) |-> CleanVolumeForCache(kept[i])]

\* what the upstream API can answer to a request for at most n volumes: any
\* list of distinct catalog volumes of that length or less
UpstreamResults(n) ==
    {r \in UNION {[1..len -> Catalog] : len \in 0..Min({n, MaxVolumes})} :
        \A i, j \in DOMAIN r : r[i] = r[j] => i = j}

\* a cache that never answers
CacheDisabled(cache, key) == None

\* search_cache.get(&cache_key)
SearchCacheGet(cache, key) == IF key \in DOMAIN cache THEN Some(cache[key]) ELSE None

\* volume_cache.insert("volume:{id}", ..) for each cached volume
SeedVolumes(volume_cache, cached) ==
    [id \in DOMAIN volume_cache \cup {cached[i].id : i \in DOMAIN cached} |->
        IF \E i \in DOMAIN cached : cached[i].id = id
        THEN cached[CHOOSE i \in DOMAIN cached : cached[i].id = id]
        ELSE volume_cache[id]]

\* search_books, search_by_author, search_by_genre, search_by_publisher up to
\* the upstream request: a hit returns the cached list, a miss counts the API
\* call and goes on to the request
SearchStart(s, args) ==
    /\ searcher[s].pc = "idle"
    /\ google_books.stats.search_hits + google_books.stats.search_misses < MaxSearches
    /\ LET key == KeyOf(args)
           cached == SearchCacheGet(google_books.search_cache, key)
       IN  IF cached # None
           THEN /\ google_books' = [google_books EXCEPT !.stats.search_hits = @ + 1]
                /\ searcher' = [searcher EXCEPT ![s] =
                      [pc |-> "idle", calls |-> @.calls + 1, args |-> args,
                       result |-> cached]]
                /\ last_result' = MapInsert(last_result, key, cached[1])
           ELSE /\ google_books' = [google_books EXCEPT
                                      !.stats.search_misses = @ + 1,
                                      !.stats.api_calls = @ + 1]
                /\ searcher' = [searcher EXCEPT ![s] =
                      [pc |-> "fetching", calls |-> @.calls + 1, args |-> args,
                       result |-> None]]
                /\ UNCHANGED last_result
    /\ UNCHANGED <<db, platform, answer_cache, worker, cmd, ghost>>

\* the upstream request returns: an error ends the search; a result is cached
\* (a title search caches a non-empty list only, the other searches cache the
\* empty list too), its volumes seed the volume cache, and the search returns
\* the upstream list as it came
SearchFetch(s) ==
    /\ searcher[s].pc = "fetching"
    /\ LET args == searcher[s].args
           key == KeyOf(args)
       IN  \E ok \in BOOLEAN :
             IF ~ok
             THEN /\ searcher' = [searcher EXCEPT ![s].pc = "idle"]
                  /\ UNCHANGED <<google_books, last_result>>
             ELSE \E results \in UpstreamResults(EffectiveMax(args.max_results)) :
                    LET to_cache == ResultsToCache(args.kind, results, args.max_results)
                    IN  /\ google_books' =
                              IF to_cache # <<>>
                              THEN [google_books EXCEPT
                                      !.search_cache = MapInsert(@, key, to_cache),
                                      !.volume_cache = SeedVolumes(@, to_cache)]
                              ELSE IF args.kind = "title"
                              THEN google_books
                              ELSE [google_books EXCEPT
                                      !.search_cache = MapInsert(@, key, <<>>)]
                        /\ searcher' = [searcher EXCEPT ![s].pc = "idle",
                                                       ![s].result = Some(results)]
                        /\ last_result' = MapInsert(last_result, key, results)
    /\ UNCHANGED <<db, platform, answer_cache, worker, cmd, ghost>>

\* the search cache drops an entry: time_to_live (1 day), time_to_idle (12 h)
\* or the size-based eviction
SearchCacheExpire(key) ==
    /\ key \in DOMAIN google_books.search_cache
    /\ google_books' = [google_books EXCEPT !.search_cache = MapRemove(@, key)]
    /\ UNCHANGED <<db, platform, answer_cache, worker, cmd, ghost,
                   searcher, last_result>>

\* the volume cache drops an entry: time_to_live (7 days), time_to_idle (24 h)
\* or the size-based eviction
VolumeCacheExpire(id) ==
    /\ id \in DOMAIN google_books.volume_cache
    /\ google_books' = [google_books EXCEPT !.volume_cache = MapRemove(@, id)]
    /\ UNCHANGED <<db, platform, answer_cache, worker, cmd, ghost,
                   searcher, last_result>>

\* ---------------------------------------------------------- specifications
Tokens == Range(RatingAnswers) \cup {UnknownToken}

PollSizes == {2, 3}

\* the steps of check_poll_for_completion and handle_missing_poll_message
\* that any poll message takes
CheckStep(w) ==
    \/ CpcFetch(w)
    \/ HmSelect(w)
    \/ PpcSelect(w)

\* process_rating_vote_add and process_rating_vote_remove
RatingVoteStep(w) ==
    \/ RvaSelect(w)
    \/ RvaResolve(w)
    \/ RvaFetch(w)
    \/ RvaUpsert(w)
    \/ RvrSelect(w)
    \/ RvrDelete(w)

\* the rating arm of the completion check
RatingCheckStep(w) ==
    \/ HmRatingUpdate(w)
    \/ PpcRatingUpdate(w)
    \/ PpcRatingSend(w)
    \/ Purge(w)

\* the selection arm of the completion check
SelectionStep(w) ==
    \/ HmSelUpdate(w)
    \/ SelNoVotesSend(w)
    \/ SelTieSend(w)
    \/ SelBlockedSend(w)
    \/ SelMarkProcessed(w)
    \/ SelTxn(w)
    \/ SelAnnounce(w)
    \/ SelWriteWinner(w)
    \/ SelConflictSend(w)

\* interactive_poll_guard
GuardStep(c) ==
    \/ GuardRepair(c)
    \/ GuardSelect(c)
    \/ GuardCancel(c)
    \/ GuardKeep(c)
    \/ GuardTimeout(c)
    \/ GuardTimeoutReturn(c)

\* the body of /select poll
PollStep(c, msgs) ==
    \/ PollCheckCurrent(c)
    \/ PollCandidates(c)
    \/ PollSend(c, msgs)
    \/ PollInsert(c)

\* the body of /select next
NextStep(c) ==
    \/ NextSelectHead(c)
    \/ NextTxn(c)

\* Polls resolved by an event handler (w1) racing the watcher (w2), with one
\* /select poll command at a time.
Next ==
    \/ \E m \in ResolvedMsgs : PlatformFinalize(m)
    \/ \E m \in ResolvedMsgs : Expire(m)
    \/ \E m \in ResolvedMsgs : EventMessageUpdate("w1", m)
    \/ PlatformFinalize(RatingMsg)
    \/ EventMessageUpdate("w1", RatingMsg)
    \/ RatingCheckStep("w1")
    \/ SweepStart("w2")
    \/ \E w \in Workers : CheckStep(w)
    \/ \E w \in Workers : SelectionStep(w)
    \/ CmdStart("cmdA", "poll", MaxOptions)
    \/ GuardStep("cmdA")
    \/ PollStep("cmdA", ResolvedMsgs)

Spec == Init /\ [][Next]_vars

\* Two /select commands racing each other while polls expire.
NextGuard ==
    \/ \E m \in SelMsgs : Expire(m)
    \/ \E c \in Cmds, kind \in {"poll", "next"}, size \in PollSizes :
          CmdStart(c, kind, size)
    \/ \E c \in Cmds : GuardStep(c)
    \/ \E c \in Cmds : PollStep(c, SelMsgs)
    \/ \E c \in Cmds : NextStep(c)

SpecGuard == Init /\ [][NextGuard]_vars

\* The rating poll: vote events and completion checks by two event handlers.
NextRating ==
    \/ PlatformFinalize(RatingMsg)
    \/ \E w \in Workers, u \in Users, tok \in Tokens :
          EventVoteAdd(w, RatingMsg, u, tok)
    \/ \E w \in Workers, u \in Users, tok \in Tokens :
          EventVoteRemove(w, RatingMsg, u, tok)
    \/ \E w \in Workers : EventMessageUpdate(w, RatingMsg)
    \/ \E w \in Workers : CheckStep(w)
    \/ \E w \in Workers : RatingVoteStep(w)
    \/ \E w \in Workers : RatingCheckStep(w)

SpecRating == Init /\ [][NextRating]_vars

\* The tally alone: a finalized three-answer poll with any counts, and one
\* event handler that reads it.
InitTally ==
    /\ \E counts \in [1..3 -> 0..MaxTally] :
          platform = [m \in MsgIds |->
                        IF m = Min(SelMsgs)
                        THEN [posted |-> TRUE, finalized |-> TRUE, counts |-> counts]
                        ELSE NoPost]
    /\ selection_polls = [m \in SelMsgs |->
                            IF m = Min(SelMsgs)
                            THEN [row |-> TRUE, book_options |-> <<"b1", "b2", "b3">>,
                                  expired |-> FALSE, processed |-> FALSE,
                                  selected_volume_id |-> NULL]
                            ELSE NoRow]
    /\ rating_polls = [m \in {RatingMsg} |->
                         [row |-> FALSE, expired |-> FALSE, processed |-> FALSE]]
    /\ user_book_ratings = [u \in Users |-> 0]
    /\ server_book_queue = <<"b1", "b2", "b3">>
    /\ server_current_book = NULL
    /\ answer_cache = EmptyMap
    /\ worker = [w \in Workers |-> IdleWorker]
    /\ cmd = [c \in Cmds |-> IdleCmd]
    /\ sent = [m \in MsgIds |-> [k \in Kinds |-> 0]]
    /\ txn_calls = [m \in SelMsgs |-> 0]
    /\ txn_applied = [m \in SelMsgs |-> 0]
    /\ sel_writes = [m \in SelMsgs |-> <<>>]
    /\ cancelled = {}
    /\ direct_applied = 0
    /\ InitBooks

NextTally ==
    \/ EventMessageUpdate("w1", Min(SelMsgs))
    \/ CheckStep("w1")

SpecTally == InitTally /\ [][NextTally]_vars

\* Votes on polls that are not rating polls: an open two-answer selection
\* poll, and a poll message of the channel for which neither table has a row;
\* two event tasks take vote-added and vote-removed events for both.
VotedMsg == Min(SelMsgs)

ForeignMsg == Min(SelMsgs) + 1

InitVotes ==
    /\ platform = [m \in MsgIds |->
                     IF m \in {VotedMsg, ForeignMsg}
                     THEN [posted |-> TRUE, finalized |-> FALSE,
                           counts |-> [i \in 1..MaxOptions |-> 0]]
                     ELSE NoPost]
    /\ selection_polls = [m \in SelMsgs |->
                            IF m = VotedMsg
                            THEN [row |-> TRUE, book_options |-> <<"b1", "b2">>,
                                  expired |-> FALSE, processed |-> FALSE,
                                  selected_volume_id |-> NULL]
                            ELSE NoRow]
    /\ rating_polls = [m \in {RatingMsg} |->
                         [row |-> FALSE, expired |-> FALSE, processed |-> FALSE]]
    /\ user_book_ratings = [u \in Users |-> 0]
    /\ server_book_queue = <<"b1", "b2", "b3">>
    /\ server_current_book = NULL
    /\ answer_cache = EmptyMap
    /\ worker = [w \in Workers |-> IdleWorker]
    /\ cmd = [c \in Cmds |-> IdleCmd]
    /\ sent = [m \in MsgIds |-> [k \in Kinds |-> 0]]
    /\ txn_calls = [m \in SelMsgs |-> 0]
    /\ txn_applied = [m \in SelMsgs |-> 0]
    /\ sel_writes = [m \in SelMsgs |-> <<>>]
    /\ cancelled = {}
    /\ direct_applied = 0
    /\ InitBooks

NextVotes ==
    \/ \E m \in {VotedMsg, ForeignMsg} : PlatformFinalize(m)
    \/ \E w \in Workers, m \in {VotedMsg, ForeignMsg}, u \in Users, tok \in 1..MaxOptions :
          EventVoteAdd(w, m, u, tok)
    \/ \E w \in Workers, m \in {VotedMsg, ForeignMsg}, u \in Users, tok \in 1..MaxOptions :
          EventVoteRemove(w, m, u, tok)
    \/ \E w \in Workers : RvaSelect(w)
    \/ \E w \in Workers : RvrSelect(w)
    \/ \E w \in Workers : CheckStep(w)
    \/ \E w \in Workers : SelectionStep(w)

SpecVotes == InitVotes /\ [][NextVotes]_vars

\* The catalog client alone: searches of every kind, in two spellings, with
\* and without max_results, one after the other, while cache entries may
\* expire.
SearchArgs ==
    [kind : SearchKinds, query : Queries, max_results : MaxResultsArgs]

SearchKeys == {KeyOf(args) : args \in SearchArgs}

NextSearch ==
    \/ \E s \in Searchers, args \in SearchArgs : SearchStart(s, args)
    \/ \E s \in Searchers : SearchFetch(s)
    \/ \E key \in SearchKeys : SearchCacheExpire(key)
    \/ \E v \in Catalog : VolumeCacheExpire(v.id)

SpecSearch == Init /\ [][NextSearch]_vars

\* The watcher with its scheduling: the interval loop of check_expired_polls
\* never stops, and each poll it lists is taken through the resolution to the
\* end before the next tick.  An event task or a command that has started
\* runs on to its end as well (the guard's prompt ends after 60 s at the
\* latest).  The delivery of an event and the start of a command carry no
\* fairness: an event may never be delivered.
NextSweep ==
    \/ Next
    \/ ExpireRating(RatingMsg)

SweeperStep == SweepStart("w2") \/ CheckStep("w2") \/ SelectionStep("w2")

EventTaskStep == CheckStep("w1") \/ SelectionStep("w1") \/ RatingCheckStep("w1")

CommandStep == GuardStep("cmdA") \/ PollStep("cmdA", ResolvedMsgs)

SpecSweep ==
    /\ Init /\ [][NextSweep]_vars
    /\ WF_vars(SweeperStep) /\ WF_vars(EventTaskStep) /\ WF_vars(CommandStep)

\* One open selection poll resolved by an event handler and the watcher
\* while an admin removes books from the queue.
NextConflict ==
    \/ PlatformFinalize(VotedMsg)
    \/ Expire(VotedMsg)
    \/ EventMessageUpdate("w1", VotedMsg)
    \/ SweepStart("w2")
    \/ \E w \in Workers : CheckStep(w)
    \/ \E w \in Workers : SelectionStep(w)
    \/ \E b \in Range(server_book_queue) : AdminQueueRemove(b)

SpecConflict == InitVotes /\ [][NextConflict]_vars

\* A rating poll and a selection poll, both open, resolved by an event
\* handler and the watcher while sends may fail.
InitDelivery ==
    /\ platform = [m \in MsgIds |->
                     IF m = VotedMsg
                     THEN [posted |-> TRUE, finalized |-> FALSE,
                           counts |-> [i \in 1..MaxOptions |-> 0]]
                     ELSE IF m = RatingMsg
                     THEN [posted |-> TRUE, finalized |-> FALSE, counts |-> <<>>]
                     ELSE NoPost]
    /\ selection_polls = [m \in SelMsgs |->
                            IF m = VotedMsg
                            THEN [row |-> TRUE, book_options |-> <<"b1", "b2">>,
                                  expired |-> FALSE, processed |-> FALSE,
                                  selected_volume_id |-> NULL]
                            ELSE NoRow]
    /\ rating_polls = [m \in {RatingMsg} |->
                         [row |-> TRUE, expired |-> FALSE, processed |-> FALSE]]
    /\ user_book_ratings = [u \in Users |-> 0]
    /\ server_book_queue = <<"b1", "b2", "b3">>
    /\ server_current_book = NULL
    /\ answer_cache = EmptyMap
    /\ worker = [w \in Workers |-> IdleWorker]
    /\ cmd = [c \in Cmds |-> IdleCmd]
    /\ sent = [m \in MsgIds |-> [k \in Kinds |-> 0]]
    /\ txn_calls = [m \in SelMsgs |-> 0]
    /\ txn_applied = [m \in SelMsgs |-> 0]
    /\ sel_writes = [m \in SelMsgs |-> <<>>]
    /\ cancelled = {}
    /\ direct_applied = 0
    /\ InitBooks

NextDelivery ==
    \/ \E m \in {VotedMsg, RatingMsg} : PlatformFinalize(m)
    \/ Expire(VotedMsg)
    \/ \E m \in {VotedMsg, RatingMsg} : EventMessageUpdate("w1", m)
    \/ SweepStart("w2")
    \/ \E w \in Workers : CheckStep(w)
    \/ \E w \in Workers : SelectionStep(w)
    \/ RatingCheckStep("w1")
    \/ \E w \in Workers : SendFails(w)

SpecDelivery == InitDelivery /\ [][NextDelivery]_vars

\* One open selection poll resolved by an event handler and the watcher in
\* a process that may stop and start again at any step, while books are
\* finished and removed from the queue.
NextCrash ==
    \/ NextConflict
    \/ Crash
    \/ FinishBook

SpecCrash == InitVotes /\ [][NextCrash]_vars

\* A selection poll row whose book_options the store holds with as many
\* entries as the poll has answers or with one fewer: the insert of /select
\* poll writes one id per answer, so the shorter row is one changed in the
\* store after it was written.  The poll is resolved by an event handler
\* and the watcher.
StoredOptions == {<<"b1">>, <<"b1", "b2">>}

InitStored ==
    /\ platform = [m \in MsgIds |->
                     IF m = VotedMsg
                     THEN [posted |-> TRUE, finalized |-> FALSE,
                           counts |-> [i \in 1..MaxOptions |-> 0]]
                     ELSE NoPost]
    /\ \E options \in StoredOptions :
         selection_polls = [m \in SelMsgs |->
                              IF m = VotedMsg
                              THEN [row |-> TRUE, book_options |-> options,
                                    expired |-> FALSE, processed |-> FALSE,
                                    selected_volume_id |-> NULL]
                              ELSE NoRow]
    /\ rating_polls = [m \in {RatingMsg} |->
                         [row |-> FALSE, expired |-> FALSE, processed |-> FALSE]]
    /\ user_book_ratings = [u \in Users |-> 0]
    /\ server_book_queue = <<"b1", "b2", "b3">>
    /\ server_current_book = NULL
    /\ answer_cache = EmptyMap
    /\ worker = [w \in Workers |-> IdleWorker]
    /\ cmd = [c \in Cmds |-> IdleCmd]
    /\ sent = [m \in MsgIds |-> [k \in Kinds |-> 0]]
    /\ txn_calls = [m \in SelMsgs |-> 0]
    /\ txn_applied = [m \in SelMsgs |-> 0]
    /\ sel_writes = [m \in SelMsgs |-> <<>>]
    /\ cancelled = {}
    /\ direct_applied = 0
    /\ InitBooks

NextStored ==
    \/ PlatformFinalize(VotedMsg)
    \/ Expire(VotedMsg)
    \/ EventMessageUpdate("w1", VotedMsg)
    \/ SweepStart("w2")
    \/ \E w \in Workers : CheckStep(w)
    \/ \E w \in Workers : SelectionStep(w)

SpecStored == InitStored /\ [][NextStored]_vars

\* The deadline watcher and an event handler: a current book that is due
\* (mature or not), with or without an open selection poll of the server.
DeadlineTask == "w2"

DueBooks == {"b4", "b5"}

DeadlineStep(w) ==
    \/ ProcessDeadlines(w)
    \/ DlFinish(w)
    \/ DlLookup(w)
    \/ DlSendPoll(w)
    \/ DlNotice(w)
    \/ DlInsert(w)

InitDeadline ==
    /\ platform = [m \in MsgIds |->
                     IF m = VotedMsg
                     THEN [posted |-> TRUE, finalized |-> FALSE,
                           counts |-> [i \in 1..MaxOptions |-> 0]]
                     ELSE NoPost]
    /\ \E open \in BOOLEAN :
         selection_polls = [m \in SelMsgs |->
                              IF m = VotedMsg /\ open
                              THEN [row |-> TRUE, book_options |-> <<"b1", "b2">>,
                                    expired |-> FALSE, processed |-> FALSE,
                                    selected_volume_id |-> NULL]
                              ELSE NoRow]
    /\ rating_polls = [m \in {RatingMsg} |->
                         [row |-> FALSE, expired |-> FALSE, processed |-> FALSE]]
    /\ user_book_ratings = [u \in Users |-> 0]
    /\ server_book_queue = <<"b1", "b2", "b3">>
    /\ server_current_book \in DueBooks
    /\ answer_cache = EmptyMap
    /\ worker = [w \in Workers |-> IdleWorker]
    /\ cmd = [c \in Cmds |-> IdleCmd]
    /\ sent = [m \in MsgIds |-> [k \in Kinds |-> 0]]
    /\ txn_calls = [m \in SelMsgs |-> 0]
    /\ txn_applied = [m \in SelMsgs |-> 0]
    /\ sel_writes = [m \in SelMsgs |-> <<>>]
    /\ cancelled = {}
    /\ direct_applied = 0
    /\ InitBooks

NextDeadline ==
    \/ DeadlineStep(DeadlineTask)
    \/ PlatformFinalize(VotedMsg)
    \/ EventMessageUpdate("w1", VotedMsg)
    \/ CheckStep("w1")
    \/ SelectionStep("w1")
    \/ FinishBook

SpecDeadline == InitDeadline /\ [][NextDeadline]_vars

\* Vote-added events on the open rating poll, taken by two event handlers in
\* a process that may stop and start again; the poll's cache entry is there
\* from the poll's creation (cache_rating_poll_answers) or not, and is
\* dropped by a completion check or a restart.
CachedAtCreation == MapInsert(EmptyMap, RatingMsg, BuildRatingAnswerMap(RatingAnswers))

VoteAddStep(w) ==
    \/ RvaSelect(w)
    \/ RvaResolve(w)
    \/ RvaFetch(w)
    \/ RvaUpsert(w)

InitCache ==
    /\ selection_polls = [m \in SelMsgs |-> NoRow]
    /\ rating_polls = [m \in {RatingMsg} |->
                         [row |-> TRUE, expired |-> FALSE, processed |-> FALSE]]
    /\ user_book_ratings = [u \in Users |-> 0]
    /\ server_book_queue = <<"b1", "b2", "b3">>
    /\ server_current_book = NULL
    /\ platform = [m \in MsgIds |->
                     IF m = RatingMsg
                     THEN [posted |-> TRUE, finalized |-> FALSE, counts |-> <<>>]
                     ELSE NoPost]
    /\ answer_cache \in {EmptyMap, CachedAtCreation}
    /\ worker = [w \in Workers |-> IdleWorker]
    /\ cmd = [c \in Cmds |-> IdleCmd]
    /\ sent = [m \in MsgIds |-> [k \in Kinds |-> 0]]
    /\ txn_calls = [m \in SelMsgs |-> 0]
    /\ txn_applied = [m \in SelMsgs |-> 0]
    /\ sel_writes = [m \in SelMsgs |-> <<>>]
    /\ cancelled = {}
    /\ direct_applied = 0
    /\ InitBooks

NextCache ==
    \/ PlatformFinalize(RatingMsg)
    \/ \E w \in Workers, u \in Users, tok \in Tokens :
          EventVoteAdd(w, RatingMsg, u, tok)
    \/ \E w \in Workers : VoteAddStep(w)
    \/ \E w \in Workers : CheckStep(w)
    \/ \E w \in Workers : RatingCheckStep(w)
    \/ Crash

SpecCache == InitCache /\ [][NextCache]_vars

\* SpecCache with the handlers of the completion check scheduled fairly: a
\* handler that can take its next step takes it (the runtime polls every
\* task; none of these steps waits for another task).
SpecCacheFair ==
    /\ SpecCache
    /\ \A w \in Workers : WF_vars(RatingCheckStep(w))

\* Two /select commands on a server that has an open selection poll, while
\* an admin removes books from the queue.
InitOpenPoll ==
    /\ InitStored
    /\ selection_polls[VotedMsg].book_options = <<"b1", "b2">>

NextOpenPoll ==
    \/ \E c \in Cmds, kind \in {"poll", "next"}, size \in PollSizes :
          CmdStart(c, kind, size)
    \/ \E c \in Cmds : GuardStep(c)
    \/ \E c \in Cmds : PollStep(c, SelMsgs)
    \/ \E c \in Cmds : NextStep(c)
    \/ \E b \in Range(server_book_queue) : AdminQueueRemove(b)

SpecOpenPoll == InitOpenPoll /\ [][NextOpenPoll]_vars

\* The rating poll's votes and completion checks with the cache's lock
\* taken and dropped step by step.
LockedStep(w) ==
    \/ RvaSelect(w)
    \/ RrcReadLock(w)
    \/ RrcRead(w)
    \/ RrcFetch(w)
    \/ RrcWriteLock(w)
    \/ RrcInsert(w)
    \/ RvaUpsert(w)
    \/ HmRatingUpdate(w)
    \/ PpcRatingUpdate(w)
    \/ PpcRatingSend(w)
    \/ PurgeWriteLock(w)
    \/ PurgeRemove(w)

NextLock ==
    \/ PlatformFinalize(RatingMsg)
    \/ \E w \in Workers, u \in Users, tok \in Tokens :
          EventVoteAdd(w, RatingMsg, u, tok)
    \/ \E w \in Workers : CheckStep(w)
    \/ \E w \in Workers : LockedStep(w)

SpecLock == Init /\ [][NextLock]_vars

\* /select poll with any size argument on queues of any length up to one
\* more than the largest poll.
LongQueue == <<"b1", "b2", "b3", "b4", "b5", "b6", "b7", "b8", "b9", "b10", "b11">>

QueueLengths == {0, 1, 2, 3, 11}

SizeArgs == {None, Some(0), Some(1), Some(2), Some(3), Some(10), Some(11), Some(255)}

InitPollSize ==
    /\ selection_polls = [m \in SelMsgs |-> NoRow]
    /\ rating_polls = [m \in {RatingMsg} |->
                         [row |-> FALSE, expired |-> FALSE, processed |-> FALSE]]
    /\ user_book_ratings = [u \in Users |-> 0]
    /\ \E n \in QueueLengths : server_book_queue = SubSeq(LongQueue, 1, n)
    /\ server_current_book = NULL
    /\ platform = [m \in MsgIds |-> NoPost]
    /\ answer_cache = EmptyMap
    /\ worker = [w \in Workers |-> IdleWorker]
    /\ cmd = [c \in Cmds |-> IdleCmd]
    /\ sent = [m \in MsgIds |-> [k \in Kinds |-> 0]]
    /\ txn_calls = [m \in SelMsgs |-> 0]
    /\ txn_applied = [m \in SelMsgs |-> 0]
    /\ sel_writes = [m \in SelMsgs |-> <<>>]
    /\ cancelled = {}
    /\ direct_applied = 0
    /\ InitBooks

NextPollSize ==
    \/ \E size \in SizeArgs : SelectPollInvoke("cmdA", size)
    \/ GuardStep("cmdA")
    \/ PollStep("cmdA", SelMsgs)
    \/ \E m \in SelMsgs : Expire(m)

SpecPollSize == InitPollSize /\ [][NextPollSize]_vars

\* ------------------------------------------------------------- properties
\* the poll's final counts have a positive maximum
PositiveMax(m) ==
    /\ platform[m].finalized
    /\ \E i \in DOMAIN platform[m].counts : platform[m].counts[i] > 0

\* every final count of the poll is zero
AllZero(m) ==
    /\ platform[m].finalized
    /\ \A i \in DOMAIN platform[m].counts : platform[m].counts[i] = 0

\* positions of a resolution that hold a winning index
WinnerPcs == {"sel_tie_send", "sel_blocked_send", "sel_txn", "sel_announce",
              "sel_write_winner", "sel_conflict_send"}

\* positions of a command inside its body
BodyPcs == {"poll_check_current", "poll_candidates", "poll_send", "poll_insert",
            "next_head", "next_txn"}

\* C1: for a finalized selection poll with a positive winning count resolved
\* by the event path and the sweep at once, the select-from-queue effect is
\* applied at most once and selected_book_id is written by one caller only:
\* when one caller has stored the winner, the other has not written the
\* column.
C1_OneWriter ==
    \A m \in SelMsgs :
        PositiveMax(m) =>
            /\ txn_applied[m] <= 1
            /\ \A i, j \in 1..Len(sel_writes[m]) :
                   sel_writes[m][i].val # NULL =>
                       sel_writes[m][j].by = sel_writes[m][i].by

\* C2: a resolution trigger that starts when the poll row already has
\* processed = true is a no-op: none of its steps sends a message, invokes
\* the select-from-queue transaction, or changes a poll row, the queue or the
\* current book.
C2_RetiredNoOp ==
    [][\A w \in Workers :
          (worker[w].late /\ worker'[w] # worker[w]) =>
              /\ sent' = sent
              /\ txn_calls' = txn_calls
              /\ txn_applied' = txn_applied
              /\ selection_polls' = selection_polls
              /\ rating_polls' = rating_polls
              /\ server_book_queue' = server_book_queue
              /\ server_current_book' = server_current_book]_vars

\* a trigger that started on a resolved selection poll has seen the
\* finalization and is about to read the row
C2_Witness ==
    \E w \in Workers :
        /\ worker[w].late
        /\ worker[w].pc = "ppc_select"
        /\ IsSelectionPoll(worker[w].m)
        /\ selection_polls[worker[w].m].selected_volume_id # NULL

\* C3: processed is monotonic: no step of a resolution, of the fetch-failure
\* handling, of a guard repair or of a cancel turns a row's processed flag
\* from true back to false.
C3_Monotonic ==
    [][/\ \A m \in SelMsgs :
              (selection_polls[m].row /\ selection_polls[m].processed)
                  => (selection_polls'[m].row /\ selection_polls'[m].processed)
       /\ \A m \in DOMAIN rating_polls :
              (rating_polls[m].row /\ rating_polls[m].processed)
                  => (rating_polls'[m].row /\ rating_polls'[m].processed)]_vars

\* a resolution is about to update a row another task has already closed
C3_Witness ==
    \E w \in Workers :
        /\ worker[w].pc \in {"sel_mark_processed", "sel_write_winner", "hm_sel_update"}
        /\ selection_polls[worker[w].m].processed

\* C4: selected_book_id of a selection poll is written at most once (so a
\* stored value is never written over), and a poll with a non-null
\* selected_book_id has processed = true.
C4_WrittenOnce ==
    /\ [](\A m \in SelMsgs :
            selection_polls[m].selected_volume_id # NULL => selection_polls[m].processed)
    /\ [][\A m \in SelMsgs :
            selection_polls[m].selected_volume_id # NULL
                => sel_writes'[m] = sel_writes[m]]_vars

\* C5: resolution triggered twice for the same finalized rating poll sends
\* exactly one completion summary (never a second one).
C5_OneSummary == sent[RatingMsg]["summary"] <= 1

\* C6: when the counts have a positive maximum the tally returns an index
\* that holds the maximum and is the lowest index holding it, in whatever
\* order the platform lists the counts; it reports "no votes" only when every
\* count is zero.
C6_LowestMaximum ==
    \A w \in Workers :
        LET counts == platform[worker[w].m].counts
            i == worker[w].winning_index + 1
        IN  /\ worker[w].pc \in WinnerPcs =>
                /\ i \in DOMAIN counts
                /\ counts[i] > 0
                /\ \A j \in DOMAIN counts : counts[j] <= counts[i]
                /\ \A j \in DOMAIN counts : counts[j] = counts[i] => i <= j
            /\ worker[w].pc = "sel_novotes_send" => AllZero(worker[w].m)

\* tallies [2,2,1] have given index 0
C6_Witness ==
    \E w \in Workers :
        /\ worker[w].pc = "sel_tie_send"
        /\ platform[worker[w].m].counts = <<2, 2, 1>>
        /\ worker[w].winning_index = 0

\* C7: when every answer count of a finalized selection poll is zero,
\* selected_book_id stays NULL, the select-from-queue transaction is never
\* invoked for the poll, a resolution that has posted the no-votes notice
\* leaves the row processed, and no step of a resolution of the poll changes
\* the queue or the current book.
C7_NoVotes ==
    /\ [](\A m \in SelMsgs :
            AllZero(m) =>
                /\ selection_polls[m].selected_volume_id = NULL
                /\ txn_calls[m] = 0
                /\ txn_applied[m] = 0
                /\ sent[m]["no_votes"] > 0 =>
                      \/ selection_polls[m].processed
                      \/ \E w \in Workers : /\ worker[w].m = m
                                            /\ worker[w].pc = "sel_mark_processed")
    /\ [][\A w \in Workers :
            (/\ worker[w].pc # "idle"
             /\ worker[w].m \in SelMsgs
             /\ AllZero(worker[w].m)
             /\ worker'[w] # worker[w]) =>
                /\ server_book_queue' = server_book_queue
                /\ server_current_book' = server_current_book]_vars

\* a poll with all counts zero has been resolved: notice posted, row closed
C7_Witness ==
    \E m \in SelMsgs :
        /\ AllZero(m)
        /\ sent[m]["no_votes"] > 0
        /\ selection_polls[m].processed
        /\ \A w \in Workers : worker[w].pc = "idle"

\* C8: in every reachable state the community has at most one selection poll
\* with processed = false and expires_at in the future.
C8_OneActivePoll == Cardinality(ActivePolls(selection_polls)) <= 1

\* two /select poll commands passed the guard and posted their polls; one row
\* was stored and the other refused
C8_Witness ==
    /\ \A c \in Cmds : cmd[c].pc = "idle"
    /\ \E m1, m2 \in SelMsgs :
          /\ platform[m1].posted /\ platform[m2].posted
          /\ m1 \in ActivePolls(selection_polls)
          /\ ~selection_polls[m2].row

\* C9: a command whose guard found an open, unexpired selection poll runs
\* its body (creates a poll, selects an item) only after the invoker chose
\* cancel-and-proceed; on keep-poll the command returns (on a timeout it goes
\* on to its timeout handling) and its step changes no poll row, no poll message, neither the queue nor the
\* current book.
C9_GuardedProceed ==
    [][\A c \in Cmds :
          /\ (cmd'[c].saw_active /\ cmd'[c].pc \in BodyPcs)
                => cmd'[c].outcome = "CancelledProceed"
          /\ (/\ cmd[c].pc = "guard_prompt"
              /\ cmd'[c] # cmd[c]
              /\ cmd'[c].outcome # "CancelledProceed")
                => /\ cmd'[c].pc \in {"idle", "guard_timed_out"}
                   /\ selection_polls' = selection_polls
                   /\ platform' = platform
                   /\ server_book_queue' = server_book_queue
                   /\ server_current_book' = server_current_book
                   /\ direct_applied' = direct_applied]_vars

\* one command is at the prompt while another, having chosen
\* cancel-and-proceed at its own prompt, is about to select the next book
C9_Witness ==
    \E c1, c2 \in Cmds :
        /\ cmd[c1].pc = "guard_prompt"
        /\ cmd[c2].saw_active
        /\ cmd[c2].outcome = "CancelledProceed"
        /\ cmd[c2].pc = "next_txn"

\* C10: once cancel-and-proceed has closed a poll, the poll's
\* selected_book_id stays unset and no resolution trigger selects an item
\* from it.
C10_Abandoned ==
    [][\A m \in SelMsgs :
          m \in cancelled =>
              /\ txn_applied'[m] = txn_applied[m]
              /\ selection_polls'[m].selected_volume_id = NULL]_vars

\* a selection poll row that is unprocessed with expires_at <= now
Stale(polls, m) == polls[m].row /\ ~polls[m].processed /\ polls[m].expired

\* C11: the guard's first statement sets processed = true on every stale
\* selection poll (unprocessed, expires_at <= now) and leaves its
\* selected_book_id unset; the guard's read then posts the prompt only when
\* an unprocessed poll with expires_at in the future exists, so a command
\* that meets only stale polls proceeds without a prompt.
C11_StaleRepaired ==
    [][\A c \in Cmds :
          /\ (cmd[c].pc = "guard_repair" /\ cmd'[c].pc = "guard_select") =>
                \A m \in SelMsgs :
                    Stale(selection_polls, m) =>
                        /\ selection_polls'[m].processed
                        /\ selection_polls'[m].selected_volume_id = NULL
          /\ (cmd[c].pc = "guard_select" /\ cmd'[c] # cmd[c]) =>
                IF \E m \in SelMsgs : /\ selection_polls[m].row
                                      /\ ~selection_polls[m].processed
                                      /\ ~selection_polls[m].expired
                THEN cmd'[c].pc = "guard_prompt"
                ELSE /\ cmd'[c].pc \in BodyPcs
                     /\ cmd'[c].outcome = "NoActivePoll"]_vars

\* a stale poll has been repaired (closed, though nobody cancelled it) and a
\* command has passed the guard without a prompt
C11_Witness ==
    \E m \in SelMsgs, c \in Cmds :
        /\ selection_polls[m].row
        /\ selection_polls[m].expired
        /\ selection_polls[m].processed
        /\ m \notin cancelled
        /\ selection_polls[m].selected_volume_id = NULL
        /\ cmd[c].outcome = "NoActivePoll"
        /\ cmd[c].pc = "poll_check_current"

\* C12: when the decision window ends without a click the outcome is
\* keep-poll: the command returns without running its body, and neither the
\* timeout nor the return changes any selection poll row.
C12_TimeoutKeeps ==
    [][\A c \in Cmds :
          /\ (cmd[c].pc = "guard_prompt" /\ cmd'[c].pc = "guard_timed_out")
                => selection_polls' = selection_polls
          /\ (cmd[c].pc = "guard_timed_out" /\ cmd'[c] # cmd[c])
                => /\ cmd'[c].pc = "idle"
                   /\ selection_polls' = selection_polls
                   /\ platform' = platform
                   /\ server_book_queue' = server_book_queue
                   /\ server_current_book' = server_current_book]_vars

\* the window has ended without a click while the poll is still open
C12_Witness ==
    \E c \in Cmds :
        /\ cmd[c].pc = "guard_timed_out"
        /\ ActivePolls(selection_polls) # {}

\* the positions of a trigger whose platform fetch has failed
FetchFailedPcs == {"hm_select", "hm_rating_update", "hm_sel_update"}

\* C13: a resolution trigger whose platform fetch fails leaves the poll's
\* processed flag as it was and records no outcome, so that the next trigger
\* retries.
C13_FetchFailureKeepsOpen ==
    [][\A w \in Workers :
          (worker[w].pc \in FetchFailedPcs /\ worker'[w] # worker[w])
              => /\ selection_polls' = selection_polls
                 /\ rating_polls' = rating_polls]_vars

\* C14: with the watcher running and the platform reporting the poll
\* finalized, every poll (selection or rating) that is unprocessed with
\* expires_at <= now is eventually processed, even when no finalize event is
\* delivered.  Stated here for the rating poll.
C14_SweptEventually ==
    (/\ rating_polls[RatingMsg].row
     /\ rating_polls[RatingMsg].expired
     /\ ~rating_polls[RatingMsg].processed
     /\ platform[RatingMsg].finalized) ~> rating_polls[RatingMsg].processed

\* a task that handles a vote-added or vote-removed event
VoteTask(w) == worker[w].pc # "idle" /\ worker[w].user # NULL

\* C15: vote-added and vote-removed events on a selection poll that is not
\* yet finalized write no selection-poll state, and the tally of a
\* resolution is taken from the counts the platform reports at finalization.
C15_VotesNotCounted ==
    /\ [](\A w \in Workers :
            worker[w].pc \in WinnerPcs \cup {"sel_novotes_send"}
                => worker[w].results = platform[worker[w].m].counts)
    /\ [][\A w \in Workers :
            (/\ VoteTask(w)
             /\ worker'[w] # worker[w]
             /\ IsSelectionPoll(worker[w].m)
             /\ ~platform[worker[w].m].finalized)
                => selection_polls' = selection_polls]_vars

\* C19: a vote-added or vote-removed event whose message id has no row in
\* rating_polls and none in selection_polls changes no table, sends no
\* message and ends without an error: each of its steps leaves the tables,
\* the answer cache, the sent messages and the transaction counters as they
\* were, and its handler only reads.
C19_UnknownMessage ==
    [][\A w \in Workers :
          (/\ VoteTask(w)
           /\ worker'[w] # worker[w]
           /\ worker[w].m \notin DOMAIN rating_polls
           /\ ~selection_polls[worker[w].m].row)
              => /\ db' = db
                 /\ answer_cache' = answer_cache
                 /\ ghost' = ghost
                 /\ worker'[w].err = NULL
                 /\ worker'[w].pc \in {"idle", "cpc_fetch", "hm_select", "ppc_select"}]_vars

\* a vote-added event on the unknown message has fetched the finalized poll
\* and is reading the tables
C19_Witness ==
    \E w \in Workers :
        /\ VoteTask(w)
        /\ worker[w].m = ForeignMsg
        /\ worker[w].pc = "ppc_select"
        /\ platform[ForeignMsg].finalized

\* the explanatory messages of the terminal outcomes: no winner, tie,
\* content-blocked, conflict
TerminalKinds == {"no_votes", "tie", "blocked", "conflict_current", "conflict_queue",
                  "selection_failed"}

\* C16: a terminal outcome of a selection-poll resolution produces exactly
\* one explanatory message for the poll: no notice of a terminal kind is
\* posted twice for one poll.
C16_OneMessage ==
    \A m \in SelMsgs : \A k \in TerminalKinds : sent[m][k] <= 1

\* the 1..5 rating that a rating poll's answer id stands for
RatingOf(token) == Position(RatingAnswers, token) + 1

\* C17: a (user, completed item) pair has one rating row at most, and its
\* value is the 1..5 rating of the answer named by the vote-added event
\* whose upsert ran last: every upsert stores the rating of its event's
\* answer, and no other step than an upsert or a vote removal of that user
\* changes the row.
C17_LastWriteWins ==
    /\ [](\A u \in Users : user_book_ratings[u] \in 0..5)
    /\ [][\A w \in Workers :
            (worker[w].pc = "rva_upsert" /\ worker'[w] # worker[w])
                => /\ RatingOf(worker[w].token) \in 1..5
                   /\ user_book_ratings'[worker[w].user] = RatingOf(worker[w].token)]_vars
    /\ [][\A u \in Users :
            user_book_ratings'[u] # user_book_ratings[u]
                => \E w \in Workers :
                      /\ worker'[w] # worker[w]
                      /\ worker[w].user = u
                      /\ worker[w].pc \in {"rva_upsert", "rvr_delete"}]_vars

\* the user's stored rating is about to be overwritten by a later vote
C17_Witness ==
    \E w \in Workers :
        /\ worker[w].pc = "rva_upsert"
        /\ user_book_ratings[worker[w].user] = 2
        /\ RatingOf(worker[w].token) = 5

\* C18: a vote-removed event on a rating poll deletes the user's rating row
\* when there is one; when there is none its delete changes no table, and
\* in both cases the handler ends without an error.
C18_RemoveVote ==
    [][\A w \in Workers :
          (worker[w].pc = "rvr_delete" /\ worker'[w] # worker[w])
              => /\ user_book_ratings'[worker[w].user] = 0
                 /\ user_book_ratings[worker[w].user] = 0 => db' = db
                 /\ \A u \in Users \ {worker[w].user} :
                        user_book_ratings'[u] = user_book_ratings[u]
                 /\ rating_polls' = rating_polls
                 /\ selection_polls' = selection_polls
                 /\ sent' = sent
                 /\ worker'[w] = IdleWorker]_vars

\* a vote is being removed for a user who has no rating row (the vote that
\* was added had not been stored, or was removed before)
C18_Witness ==
    \E w \in Workers :
        /\ worker[w].pc = "rvr_delete"
        /\ user_book_ratings[worker[w].user] = 0
        /\ answer_cache # EmptyMap

\* a step in which searcher s starts a search that repeats, with the same
\* key, a search that has returned a non-empty result
RepeatsSearch(s) ==
    /\ searcher'[s].calls = searcher[s].calls + 1
    /\ KeyOf(searcher'[s].args) \in DOMAIN last_result
    /\ last_result[KeyOf(searcher'[s].args)] # <<>>

\* C20 as stated: once a search has returned a non-empty result, the same
\* search repeated makes no upstream request and returns the same volumes in
\* the same order.
C20_RepeatFromCache ==
    [][\A s \in Searchers :
          RepeatsSearch(s) =>
              /\ google_books'.stats.api_calls = google_books.stats.api_calls
              /\ searcher'[s].pc = "idle"
              /\ searcher'[s].result = Some(last_result[KeyOf(searcher'[s].args)])]_vars

\* C20 as amended: while the search cache still holds the entry of the key,
\* the repeated search makes no upstream request and returns the cached form
\* of the earlier result: the same volume ids in the same order (for author,
\* genre and publisher searches the first effective_max of them), each
\* description cut to the cached limit.
C20_RepeatCachedForm ==
    [][\A s \in Searchers :
          (/\ RepeatsSearch(s)
           /\ KeyOf(searcher'[s].args) \in DOMAIN google_books.search_cache)
              => LET args == searcher'[s].args
                     prev == last_result[KeyOf(args)]
                     now == searcher'[s].result[1]
                 IN  /\ google_books'.stats.api_calls = google_books.stats.api_calls
                     /\ searcher'[s].pc = "idle"
                     /\ searcher'[s].result # None
                     /\ Len(now) = IF args.kind = "title" THEN Len(prev)
                                   ELSE Min({Len(prev), EffectiveMax(args.max_results)})
                     /\ \A i \in 1..Len(now) :
                           /\ now[i].id = prev[i].id
                           /\ now[i].description =
                                 Min({prev[i].description, DescriptionLimit})]_vars

\* a repeated search has been answered from the cache, with the long
\* description cut, after a single upstream request
C20_Witness ==
    \E s \in Searchers :
        /\ searcher[s].pc = "idle"
        /\ searcher[s].calls = 2
        /\ searcher[s].result # None
        /\ google_books.stats.api_calls = 1
        /\ google_books.stats.search_hits = 1
        /\ \E i \in DOMAIN searcher[s].result[1] :
              /\ searcher[s].result[1][i].id = "v2"
              /\ searcher[s].result[1][i].description = DescriptionLimit

\* C21: every resolution, of a rating or of a selection poll, begins with
\* the update that flips processed from false to true: a step of a resolution
\* that sends a message for a poll, or invokes the select-from-queue
\* transaction for it, is taken only after that update has committed, that
\* is, when the poll's row already has processed = true.
C21_ClaimFirst ==
    [][/\ \A m \in MsgIds :
              sent'[m] # sent[m] => RowProcessed(m)
       /\ \A m \in SelMsgs :
              txn_calls'[m] # txn_calls[m] => selection_polls[m].processed]_vars

\* C22: once selected_book_id of a selection poll is non-null, no step of
\* any task (fetch-failure handling, guard repair, cancel-and-proceed, a
\* second resolution) changes or clears the stored value.
C22_WinnerKept ==
    [][\A m \in SelMsgs :
          selection_polls[m].selected_volume_id # NULL =>
              selection_polls'[m].selected_volume_id
                  = selection_polls[m].selected_volume_id]_vars

\* a resolution that fetched its winner, found it mature and read settings
\* that do not permit mature content in the origin channel
GateRefused(w) == worker[w].pc # "idle" /\ worker[w].can_show = "refused"

C24_GateNeedsLookup ==
    /\ [](\A w \in Workers :
            /\ worker[w].can_show # "unread" => worker[w].volume
            /\ worker[w].pc = "sel_blocked_send" => worker[w].volume)
    /\ [][\A w \in Workers :
            (/\ worker[w].pc \in {"ppc_select", "sel_tie_send"}
             /\ worker'[w].pc \in WinnerPcs \ {"sel_tie_send"}
             /\ ~worker'[w].volume) =>
                /\ worker'[w].pc = "sel_txn"
                /\ worker'[w].can_show = "unread"
                /\ sent'[worker[w].m]["blocked"] = sent[worker[w].m]["blocked"]]_vars

\* a mature winner whose lookup failed has been selected by the transaction
\* and no warning was posted for the poll
C24_Witness ==
    \E w \in Workers :
        /\ worker[w].pc = "sel_announce"
        /\ ~worker[w].volume
        /\ WinningVolume(worker[w]) \in MatureBooks
        /\ server_current_book = WinningVolume(worker[w])
        /\ sent[worker[w].m]["blocked"] = 0

C26_ConflictCloses ==
    /\ [](\A m \in SelMsgs :
            (selection_polls[m].processed /\ txn_applied[m] = 0)
                => selection_polls[m].selected_volume_id = NULL)
    /\ [][\A w \in Workers :
            worker'[w] # worker[w] =>
                LET wr == worker[w]
                    m == wr.m
                IN
                /\ (wr.pc = "sel_txn" /\ txn_applied'[m] = txn_applied[m]) =>
                      /\ worker'[w].pc = "sel_conflict_send"
                      /\ server_book_queue' = server_book_queue
                      /\ server_current_book' = server_current_book
                      /\ worker'[w].err = "already has a current book"
                            => server_current_book # NULL
                      /\ worker'[w].err = "not found in queue"
                            => /\ server_current_book = NULL
                               /\ WinningVolume(wr) \notin Range(server_book_queue)
                /\ wr.pc = "sel_conflict_send" =>
                      LET kind == CASE wr.err = "already has a current book"
                                         -> "conflict_current"
                                    [] wr.err = "not found in queue"
                                         -> "conflict_queue"
                                    [] OTHER -> "selection_failed"
                      IN  /\ sent' = [sent EXCEPT ![m][kind] = @ + 1]
                          /\ worker'[w].pc = "sel_mark_processed"
                          /\ worker'[w].err = wr.err
                          /\ selection_polls' = selection_polls
                /\ (wr.pc = "sel_mark_processed" /\ wr.err # NULL) =>
                      /\ selection_polls'[m].processed
                      /\ selection_polls'[m].selected_volume_id
                            = selection_polls[m].selected_volume_id
                      /\ worker'[w].pc = "idle"]_vars

\* the winner was removed from the queue before the poll was resolved: the
\* "removed from the queue" notice was posted and the poll closed with no
\* book selected
C26_Witness ==
    /\ sent[VotedMsg]["conflict_queue"] = 1
    /\ sent[VotedMsg]["conflict_current"] = 0
    /\ selection_polls[VotedMsg].processed
    /\ selection_polls[VotedMsg].selected_volume_id = NULL
    /\ server_current_book = NULL
    /\ txn_calls[VotedMsg] = 1
    /\ \A w \in Workers : worker[w].pc = "idle"

\* C27: a send of a resolution (rating summary, no-votes, tie, warning,
\* announcement with its pin, conflict notice) writes no table, and the
\* resolution goes on to the same statement whether the message was delivered
\* or the call failed, so that processed and selected_book_id end as they do
\* when every send succeeds; the rating poll is already processed when its
\* summary is sent.
C27_SendsBestEffort ==
    /\ [](\A w \in Workers :
            worker[w].pc = "ppc_rating_send" => rating_polls[worker[w].m].processed)
    /\ [][\A w \in Workers :
            (worker[w].pc \in SendPcs /\ worker'[w] # worker[w]) =>
                LET wr == worker[w] IN
                /\ selection_polls' = selection_polls
                /\ rating_polls' = rating_polls
                /\ server_book_queue' = server_book_queue
                /\ server_current_book' = server_current_book
                /\ wr.pc = "ppc_rating_send"
                      => worker'[w] = [wr EXCEPT !.pc = "purge"]
                /\ wr.pc \in {"sel_novotes_send", "sel_blocked_send", "sel_conflict_send"}
                      => worker'[w] = [wr EXCEPT !.pc = "sel_mark_processed"]
                /\ wr.pc = "sel_announce"
                      => worker'[w] = [wr EXCEPT !.pc = "sel_write_winner"]
                /\ (/\ wr.pc = "sel_tie_send"
                    /\ wr.winning_index < Len(wr.book_options)
                    /\ WinningVolume(wr) \notin MatureBooks)
                      => worker'[w].pc = "sel_txn"]_vars

\* the announcement could not be sent, and the poll is closed with its
\* winner stored and selected
C27_Witness ==
    /\ sent[VotedMsg]["announce"] = 0
    /\ txn_applied[VotedMsg] = 1
    /\ selection_polls[VotedMsg].processed
    /\ selection_polls[VotedMsg].selected_volume_id = server_current_book
    /\ server_current_book # NULL
    /\ \A w \in Workers : worker[w].pc = "idle"

\* C28: the vote handlers of a rating poll do not read the processed flag:
\* for a rating poll that is already processed a vote-added event still
\* resolves its answer and upserts the user's rating, and a vote-removed
\* event still deletes it.
C28_VotesAfterProcessed ==
    [][\A w \in Workers :
          (/\ worker'[w] # worker[w]
           /\ worker[w].m \in DOMAIN rating_polls
           /\ rating_polls[worker[w].m].row
           /\ rating_polls[worker[w].m].processed) =>
              LET wr == worker[w] IN
              /\ wr.pc = "rva_select" => worker'[w].pc = "rva_resolve"
              /\ wr.pc = "rva_resolve" => worker'[w].pc \in {"rva_upsert", "rva_fetch"}
              /\ wr.pc = "rva_upsert" =>
                    /\ wr.rating \in 1..5
                    /\ user_book_ratings'[wr.user] = wr.rating
              /\ wr.pc = "rvr_select" => worker'[w].pc = "rvr_delete"
              /\ wr.pc = "rvr_delete" => user_book_ratings'[wr.user] = 0]_vars

\* a vote added to a processed rating poll has been stored
C28_Witness ==
    \E w \in Workers :
        /\ VoteTask(w)
        /\ worker[w].pc = "cpc_fetch"
        /\ worker[w].late
        /\ worker[w].rating \in 1..5
        /\ rating_polls[worker[w].m].processed
        /\ user_book_ratings[worker[w].user] = worker[w].rating

\* C29: the delete of a vote-removed event does not look at the answer the
\* event names: it removes the user's rating also when the stored rating is
\* that of another answer, so that a removal of the old answer handled after
\* the added vote for the new answer leaves the user with no rating.
C29_RemoveIgnoresAnswer ==
    [][\A w \in Workers :
          (/\ worker[w].pc = "rvr_delete"
           /\ worker'[w] # worker[w]
           /\ user_book_ratings[worker[w].user] # 0
           /\ user_book_ratings[worker[w].user] # RatingOf(worker[w].token))
              => user_book_ratings'[worker[w].user] = 0]_vars

\* the handler of an added vote has stored its rating and is at its
\* completion check, and the user has no rating: a removal ran after it
C29_Witness ==
    \E w \in Workers :
        /\ VoteTask(w)
        /\ worker[w].pc = "cpc_fetch"
        /\ worker[w].rating \in 1..5
        /\ user_book_ratings[worker[w].user] = 0

BadIndex(wr) == wr.winning_index >= Len(wr.book_options)

\* one answer alone has the most votes, and book_options has no entry at its
\* position
SoleWinnerBeyond(results, options) ==
    \E i \in DOMAIN results :
        /\ i > Len(options)
        /\ \A j \in DOMAIN results \ {i} : results[j] < results[i]

\* C32: a resolution whose winning index is not an index of the poll's
\* book_options goes from the tally (or the tie notice) to the UPDATE that
\* sets processed = TRUE and nowhere else, that UPDATE changes nothing but
\* processed, and no resolution holding such an index is at the
\* select-from-queue transaction or at a step after it.
C32_BadIndexCloses ==
    /\ [](\A w \in Workers :
            worker[w].pc \in {"sel_blocked_send", "sel_txn", "sel_announce",
                              "sel_write_winner", "sel_conflict_send"}
                => ~BadIndex(worker[w]))
    /\ [][\A w \in Workers :
            LET wr == worker[w]  nx == worker'[w]  m == wr.m IN
            /\ ( /\ nx # wr
                 /\ \/ wr.pc = "sel_tie_send" /\ BadIndex(wr)
                    \/ /\ wr.pc = "ppc_select"
                       /\ m \in SelMsgs
                       /\ selection_polls[m].row
                       /\ ~selection_polls[m].processed
                       /\ SoleWinnerBeyond(wr.results, selection_polls[m].book_options) )
                  => /\ nx.pc = "sel_mark_processed"
                     /\ txn_calls' = txn_calls
                     /\ selection_polls' = selection_polls
                     /\ server_current_book' = server_current_book
                     /\ server_book_queue' = server_book_queue
            /\ ( /\ wr.pc = "sel_mark_processed"
                 /\ BadIndex(wr)
                 /\ wr.winning_index >= 0
                 /\ nx # wr )
                  => /\ selection_polls'[m].processed
                     /\ selection_polls'[m].selected_volume_id
                           = selection_polls[m].selected_volume_id
                     /\ txn_calls' = txn_calls
                     /\ txn_applied' = txn_applied
                     /\ sent' = sent
                     /\ server_current_book' = server_current_book
                     /\ server_book_queue' = server_book_queue
                     /\ nx.pc \notin {"sel_txn", "sel_announce", "sel_write_winner"}]_vars

C32_Witness ==
    \E m \in SelMsgs :
        /\ selection_polls[m].row
        /\ Len(selection_polls[m].book_options) = 1
        /\ platform[m].finalized
        /\ platform[m].counts = <<0, 1>>
        /\ selection_polls[m].processed
        /\ selection_polls[m].selected_volume_id = NULL
        /\ txn_calls[m] = 0
        /\ server_current_book = NULL
        /\ \A w \in Workers : worker[w].pc = "idle"

\* C33: the deadline completion runs the finish-item transaction for the due
\* community whatever polls exist (a current book is finished by the step
\* at the transaction), a rating_polls row is created only by a completion
\* whose gate permitted the volume, and a completion whose gate blocked the
\* volume posts the blocking notice and creates no rating poll.
C33_DeadlineCompletion ==
    [][\A w \in Workers :
          LET wr == worker[w] IN
          worker'[w] # wr =>
            /\ (wr.pc = "dl_finish" /\ server_current_book # NULL)
                  => server_current_book' = NULL
            /\ (rating_polls'[RatingMsg].row /\ ~rating_polls[RatingMsg].row /\ wr.pc = "dl_insert")
                  => CanShowVolume(wr.volume_id, wr.volume, wr.can_show)
            /\ wr.pc = "dl_notice"
                  => /\ sent'[wr.m]["deadline_blocked"] = sent[wr.m]["deadline_blocked"] + 1
                     /\ platform' = platform
                     /\ rating_polls' = rating_polls
                     /\ worker'[w].pc = "idle"]_vars

\* C34: the rating a vote-added event resolves to is the 1-based position of
\* its answer in the platform's answer list on both paths of
\* resolve_rating_choice, the cache hit and the fetch after a miss, so it is
\* the same with the poll's entry present, absent or dropped earlier; every
\* entry the cache holds is that mapping.
C34_CacheTransparent ==
    /\ [](\A m \in DOMAIN answer_cache :
            \A tok \in DOMAIN answer_cache[m] : answer_cache[m][tok] = RatingOf(tok))
    /\ [](\A w \in Workers :
            worker[w].pc = "rva_upsert" => worker[w].rating = RatingOf(worker[w].token))
    /\ [][\A w \in Workers :
            LET wr == worker[w]  nx == worker'[w] IN
            (wr.pc \in {"rva_resolve", "rva_fetch"} /\ nx # wr /\ nx.pc # "idle")
               => IF wr.token \in Range(RatingAnswers)
                  THEN \/ nx.pc = "rva_upsert" /\ nx.rating = RatingOf(wr.token)
                       \/ wr.pc = "rva_resolve" /\ nx.pc = "rva_fetch"
                  ELSE nx.pc \in {"rva_fetch", "cpc_fetch"}]_vars

\* a vote resolved to 5 whose poll's entry has been dropped since, about to
\* overwrite a rating of 2 stored by an earlier vote
C34_Witness ==
    \E w \in Workers :
        /\ worker[w].pc = "rva_upsert"
        /\ worker[w].rating = 5
        /\ worker[w].m \notin DOMAIN answer_cache
        /\ user_book_ratings[worker[w].user] = 2

\* C35: a vote-added event on a rating poll whose answer id is not in the
\* answer list just fetched is skipped: the step of a fetch that returned
\* writes no table, caches the fetched map and passes the handler on to the
\* completion check without an error (only a failed fetch or a stop of the
\* process ends the handler there), the
\* handler never reaches the upsert, and no step of it writes or changes a
\* rating row.
C35_UnknownAnswerSkipped ==
    /\ [](\A w \in Workers :
            (worker[w].pc = "rva_upsert") => worker[w].token \in Range(RatingAnswers))
    /\ [][\A w \in Workers :
            LET wr == worker[w]  nx == worker'[w] IN
            ( /\ wr.pc \in {"rva_select", "rva_resolve", "rva_fetch"}
              /\ wr.token \notin Range(RatingAnswers)
              /\ nx # wr )
               => /\ user_book_ratings' = user_book_ratings
                  /\ db' = db
                  /\ nx.err = NULL
                  /\ (wr.pc = "rva_fetch" /\ wr.m \in DOMAIN answer_cache' \ DOMAIN answer_cache)
                        => nx = EnterCheck(wr, wr.m)
                  /\ (wr.pc = "rva_fetch" /\ nx.pc # "idle")
                        => nx = EnterCheck(wr, wr.m) /\ wr.m \in DOMAIN answer_cache']_vars
    /\ [][\A u \in Users :
            user_book_ratings'[u] # user_book_ratings[u]
               => \E w \in Workers :
                     /\ worker'[w] # worker[w]
                     /\ worker[w].token \in Range(RatingAnswers)]_vars

\* the handler of a vote for an unknown answer has fetched the poll and gone
\* on to the completion check; the user's earlier rating is as it was
C35_Witness ==
    \E w \in Workers :
        /\ worker[w].pc = "cpc_fetch"
        /\ worker[w].origin = "event"
        /\ worker[w].token = UnknownToken
        /\ worker[w].m \in DOMAIN answer_cache
        /\ user_book_ratings[worker[w].user] = 3

\* positions of a handler that has marked a rating poll processed and has
\* not yet purged the poll's cache entry
MarkedPcs == {"ppc_rating_send", "purge"}

\* C36: a rating poll is marked processed only by the resolution or by the
\* fetch-failure handling, and the handler that marked it goes on to purge
\* the cache: its only next steps are the summary and the purge, the purge
\* removes the entry of the poll's message id, and under fair scheduling the
\* handler gets there (a stop of the process drops the whole cache).
C36_PurgeAfterProcessed ==
    /\ [][\A m \in DOMAIN rating_polls :
            (rating_polls'[m].processed /\ ~rating_polls[m].processed)
               => \E w \in Workers :
                     /\ worker[w].m = m
                     /\ worker[w].pc \in {"ppc_rating_update", "hm_rating_update"}
                     /\ worker'[w].m = m
                     /\ worker'[w].pc \in MarkedPcs]_vars
    /\ [][\A w \in Workers :
            LET wr == worker[w]  nx == worker'[w] IN
            nx # wr =>
              /\ wr.pc = "ppc_rating_send"
                    => (nx.pc = "purge" /\ nx.m = wr.m) \/ answer_cache' = EmptyMap
              /\ wr.pc = "purge" => wr.m \notin DOMAIN answer_cache']_vars
    /\ \A w \in Workers :
          (worker[w].pc \in MarkedPcs) ~> (RatingMsg \notin DOMAIN answer_cache)

\* the rating poll closed with its summary posted, a rating stored by a vote
\* that filled the cache, and the entry gone
C36_Witness ==
    /\ rating_polls[RatingMsg].processed
    /\ sent[RatingMsg]["summary"] = 1
    /\ user_book_ratings["u1"] = 4
    /\ RatingMsg \notin DOMAIN answer_cache
    /\ txn_calls = [m \in SelMsgs |-> 0]
    /\ \A w \in Workers : worker[w].pc = "idle"

\* C37: cancel-and-proceed closes every open selection poll of the server in
\* the guard, before the command's body reads the current book or the
\* queue; a /select poll that is then refused (a current book exists, or
\* fewer than two candidates) returns without touching a poll row or
\* posting a poll, so the polls it cancelled stay processed and it leaves no
\* open poll in their place.
C37_CancelBeforeChecks ==
    /\ [](\A m \in cancelled : selection_polls[m].processed)
    /\ [][\A c \in Cmds :
            (cmd[c].pc = "guard_prompt" /\ cmd'[c].outcome = "CancelledProceed")
               => /\ \A m \in SelMsgs : selection_polls[m].row => selection_polls'[m].processed
                  /\ cmd'[c].pc = BodyPc(cmd[c].kind)
                  /\ server_current_book' = server_current_book
                  /\ server_book_queue' = server_book_queue]_vars
    /\ [][\A c \in Cmds :
            ( /\ cmd[c].outcome = "CancelledProceed"
              /\ cmd'[c] # cmd[c]
              /\ \/ cmd[c].pc = "poll_check_current" /\ server_current_book # NULL
                 \/ cmd[c].pc = "poll_candidates" /\ Len(server_book_queue) < 2 )
               => /\ cmd'[c] = IdleCmd
                  /\ selection_polls' = selection_polls
                  /\ platform' = platform]_vars

\* a /select poll that cancelled the open poll is about to be refused for
\* want of candidates: no selection poll is open
C37_Witness ==
    \E c \in Cmds :
        /\ cmd[c].outcome = "CancelledProceed"
        /\ cmd[c].pc = "poll_candidates"
        /\ Len(server_book_queue) < 2
        /\ VotedMsg \in cancelled
        /\ \A m \in SelMsgs : selection_polls[m].row => selection_polls[m].processed

\* positions at which a task is inside a platform or storage call, or
\* waits for one of its own
AwaitingPcs == {"rva_select", "rrc_fetch", "rva_upsert", "cpc_fetch", "hm_select",
                "hm_rating_update", "ppc_select", "ppc_rating_update",
                "ppc_rating_send"}

\* C38: a task holds a guard of the answer cache's lock only between taking
\* it and the map operation that follows, never at a platform or storage
\* call: at the fetch of resolve_rating_choice the read guard has been
\* dropped and the write guard is taken only afterwards, for the insert; so
\* while one task's fetch is pending, another task that asks for the lock
\* (to read, to insert or to purge) gets it.
C38_NoLockAcrossCalls ==
    /\ \A w \in Workers :
          /\ worker[w].pc \in AwaitingPcs => worker[w].lock = "none"
          /\ worker[w].lock = "read" => worker[w].pc = "rrc_read"
          /\ worker[w].lock = "write" => worker[w].pc \in {"rrc_insert", "purge_remove"}
    /\ \A w, o \in Workers :
          (w # o /\ worker[w].pc = "rrc_fetch") =>
              /\ worker[o].pc = "rva_resolve" => ENABLED RrcReadLock(o)
              /\ worker[o].pc = "rrc_write_wait" => ENABLED RrcWriteLock(o)
              /\ worker[o].pc = "purge" => ENABLED PurgeWriteLock(o)

\* one task's fetch is pending while the other holds the write guard for
\* its insert
C38_Witness ==
    \E w, o \in Workers :
        /\ worker[w].pc = "rrc_fetch"
        /\ worker[o].pc = "rrc_insert"
        /\ worker[o].lock = "write"

\* C39: every selection poll row has between 2 and 10 ids in book_options,
\* as has every poll a command has posted or is about to post; a /select
\* poll that finds fewer than 2 candidates returns without posting a poll
\* or inserting a row.
C39_OptionsBounded ==
    /\ [](\A m \in SelMsgs :
            selection_polls[m].row =>
                /\ Len(selection_polls[m].book_options) >= 2
                /\ Len(selection_polls[m].book_options) <= 10)
    /\ [](\A c \in Cmds :
            cmd[c].pc \in {"poll_send", "poll_insert"} =>
                /\ Len(cmd[c].book_ids) >= 2
                /\ Len(cmd[c].book_ids) <= 10)
    /\ [](\A m \in SelMsgs :
            platform[m].posted =>
                /\ Len(platform[m].counts) >= 2
                /\ Len(platform[m].counts) <= 10)
    /\ [][\A c \in Cmds :
            ( /\ cmd[c].pc = "poll_candidates"
              /\ cmd'[c] # cmd[c]
              /\ Len(server_book_queue) < 2 )
               => /\ cmd'[c] = IdleCmd
                  /\ platform' = platform
                  /\ selection_polls' = selection_polls]_vars

\* a row with ten options, created from a queue of eleven books
C39_Witness ==
    \E m \in SelMsgs :
        /\ selection_polls[m].row
        /\ Len(selection_polls[m].book_options) = MaxPollSize
        /\ Len(server_book_queue) > MaxPollSize
        /\ platform[m].posted

====
